---- MODULE Spec2Model ----
(***************************************************************************)
(* A model of localflare: the LocalFlare runtime wrapper and the wrangler  *)
(* configuration functions, the D1 dummy-data generator and its dialog,    *)
(* the R2 file-tree builder, and the playground's Counter durable object.  *)
(*                                                                         *)
(* Text is modelled as sequences: a path is a sequence of tokens (words    *)
(* without "." or "/", and the two separators), a declared column type and *)
(* the text of an input field are sequences of characters, an object key   *)
(* is the sequence of its "/"-separated segments.                          *)
(***************************************************************************)
EXTENDS Integers, Sequences, FiniteSets, TLC

VARIABLES
    \* ---- file system and configuration functions (config.ts)
    fs,          \* path -> file content, or NoFile
    cfgInput,    \* the parsed configuration handed to discoverBindings
    cfgLast,     \* outcome of the last findWranglerConfig / parseWranglerConfig / discoverBindings call
    \* ---- class LocalFlare
    options,     \* this.options (the configPath of the constructor)
    mf,          \* this.mf
    config,      \* this.config
    bindings,    \* this.bindings
    startPc,     \* position of the start() call in flight
    stopPc,      \* position of the stop() call in flight
    lfLast,      \* outcome of the most recently completed LocalFlare call
    lfSeq,       \* flips whenever a LocalFlare call completes
    \* ---- generateDummyRow
    ddSchema,    \* the schema argument
    ddFk,        \* the foreignKeyValues argument
    ddRow,       \* the row under construction, then returned
    ddIdx,       \* index of the next column of the loop
    \* ---- DummyDataGeneratorDialog
    rowCount,    \* the rowCount state
    isGenerating,\* the isGenerating property
    pending,     \* the text in the row-count input
    changeSeq,   \* flips at every change event of the row-count input
    generateCalls, \* the argument of the last onGenerate call, if any
    \* ---- buildFileTree
    ftObjects,   \* the objects argument
    ftHide,      \* the hideKeepFiles argument
    ftNodes,     \* the tree nodes created so far, in order of creation
    ftKids,      \* the children list of the root (0) and of every node
    ftI,         \* index of the next object of the first loop
    ftK,         \* index of the next object of the .keep loop
    ftSorted,    \* sortNodes has run and the tree is returned
    \* ---- Counter durable objects and the /api/counter routes
    ctStorage,   \* per object id: the entry 'value' of the object's storage
    ctAlive,     \* per object id: an instance of Counter is in memory
    ctValue,     \* per object id: the field value of the instance
    ctReq,       \* per object id: the request the object is handling
    ctResp,      \* per counter name: the last response to a request for it
    ctNet,       \* per counter name: answered increments minus answered
                 \* decrements since the last answered reset (history)
    ctFlight,    \* the requests of object idA in flight together
    \* ---- substituteParams
    spQuery,     \* the query argument
    spParams,    \* the params argument
    spResult,    \* the string returned
    \* ---- the dashboard worker (analytics proxy)
    wkVariant,   \* which of the two copies of the worker runs
    wkRequest,   \* the request being handled
    wkPc,        \* position of the fetch handler
    wkAssets,    \* the requests passed to env.ASSETS.fetch
    wkUpstream,  \* the requests sent to the Cloudflare API
    wkResponses, \* the outcomes of the fetch handler
    \* ---- the browser ApiClient
    acStored,    \* the localStorage item of the credentials
    acCall,      \* the ApiClient call in flight
    acHttp,      \* the HTTP requests sent
    acResult     \* the outcome of the call

cfgVars == <<fs, cfgInput, cfgLast>>
lfVars == <<options, mf, config, bindings, startPc, stopPc, lfLast, lfSeq>>
rowVars == <<ddSchema, ddFk, ddRow, ddIdx>>
dialogVars == <<rowCount, isGenerating, pending, changeSeq, generateCalls>>
treeVars == <<ftObjects, ftHide, ftNodes, ftKids, ftI, ftK, ftSorted>>
counterVars == <<ctStorage, ctAlive, ctValue, ctReq, ctResp, ctNet, ctFlight>>
substVars == <<spQuery, spParams, spResult>>
workerVars == <<wkVariant, wkRequest, wkPc, wkAssets, wkUpstream, wkResponses>>
apiVars == <<acStored, acCall, acHttp, acResult>>
webVars == <<substVars, workerVars, apiVars>>
vars == <<cfgVars, lfVars, rowVars, dialogVars, treeVars, counterVars, webVars>>

--------------------------------------------------------------------------
(* Generic helpers on sequences                                            *)

Range(s) == {s[i] : i \in 1..Len(s)}

\* s.startsWith(p)
StartsWith(s, p) == Len(s) >= Len(p) /\ SubSeq(s, 1, Len(p)) = p

\* s.endsWith(p)
EndsWith(s, p) == Len(s) >= Len(p) /\ SubSeq(s, Len(s) - Len(p) + 1, Len(s)) = p

\* s.includes(p)
Includes(s, p) == \E i \in 0..(Len(s) - Len(p)) : SubSeq(s, i + 1, i + Len(p)) = p

--------------------------------------------------------------------------
(* JavaScript values of the configuration                                  *)

Undefined == [tag |-> "undefined"]
Null == [tag |-> "null"]
List(items) == [tag |-> "list", items |-> items]
Map(entries) == [tag |-> "map", entries |-> entries]
Obj(fields) == [tag |-> "object", fields |-> fields]

IsNullish(v) == v.tag \in {"undefined", "null"}

\* a ?? b
Coalesce(a, b) == IF IsNullish(a) THEN b ELSE a

\* a?.f
OptChain(a, f) == IF IsNullish(a) THEN Undefined ELSE a.fields[f]

--------------------------------------------------------------------------
(* config.ts: paths                                                        *)

\* resolve(directory, filename) for an absolute directory and a plain file name
Resolve(directory, filename) == directory \o <<"/">> \o filename

\* String.prototype.toLowerCase on the words the model uses
LowerWord(w) ==
    CASE w \in {"TOML", "Toml"} -> "toml"
      [] w \in {"JSON", "Json"} -> "json"
      [] w \in {"JSONC", "JsonC"} -> "jsonc"
      [] OTHER -> w

ToLowerCase(s) == [i \in 1..Len(s) |-> LowerWord(s[i])]

\* the last path segment
Basename(path) ==
    LET slashes == {i \in 1..Len(path) : path[i] = "/"}
        from == IF slashes = {} THEN 1
                ELSE (CHOOSE i \in slashes : \A j \in slashes : j <= i) + 1
    IN SubSeq(path, from, Len(path))

\* node:path extname: from the last "." of the last segment to its end; empty
\* when there is no "." or the only "." starts the segment
extname(path) ==
    LET base == Basename(path)
        dots == {i \in 1..Len(base) : base[i] = "."}
        last == CHOOSE i \in dots : \A j \in dots : j <= i
    IN IF dots = {} \/ last = 1 THEN <<>> ELSE SubSeq(base, last, Len(base))

WRANGLER_CONFIG_FILES ==
    << <<"wrangler", ".", "toml">>,
       <<"wrangler", ".", "json">>,
       <<"wrangler", ".", "jsonc">> >>

Directories == { <<"proj">>, <<"my", ".", "app">> }

\* the files the model lets exist
Paths ==
    { <<"proj", "/", "wrangler", ".", "toml">>,
      <<"proj", "/", "wrangler", ".", "json">>,
      <<"proj", "/", "wrangler", ".", "jsonc">>,
      <<"proj", "/", "wrangler", ".", "TOML">>,
      <<"proj", "/", "wrangler", ".", "JsonC">>,
      <<"proj", "/", "wrangler", ".", "conf">>,
      <<"proj", "/", ".", "toml">>,
      <<"my", ".", "app", "/", "wrangler">>,
      <<"my", ".", "app", "/", "wrangler", ".", "json">> }

--------------------------------------------------------------------------
(* config.ts: file contents and the three parsers (external libraries,     *)
(* modelled by their outcome on each content)                              *)

NoFile == [tag |-> "nofile"]

EmptyConfig ==
    [d1_databases |-> Undefined, kv_namespaces |-> Undefined, r2_buckets |-> Undefined,
     durable_objects |-> Undefined, queues |-> Undefined, vars |-> Undefined,
     main |-> Undefined]

FullConfig ==
    [d1_databases |-> List(<<[binding |-> "DB", database_id |-> "d1"]>>),
     kv_namespaces |-> List(<<[binding |-> "CACHE", id |-> "k1"]>>),
     r2_buckets |-> List(<<[binding |-> "STORAGE", bucket_name |-> "b1"]>>),
     durable_objects |-> Obj([bindings |-> List(<<[name |-> "COUNTER", class_name |-> "Counter"]>>)]),
     queues |-> Obj([producers |-> List(<<[binding |-> "TASKS", queue |-> "q1"]>>),
                     consumers |-> Undefined]),
     vars |-> Map(<<<<"ENVIRONMENT", "dev">>>>),
     main |-> [tag |-> "string", text |-> "src/index.ts"]]

KvOnlyConfig == [EmptyConfig EXCEPT !.kv_namespaces = List(<<[binding |-> "SESSIONS", id |-> "k2"]>>)]

Failed == [ok |-> FALSE]
Parsed(cfg) == [ok |-> TRUE, config |-> cfg]

Contents ==
    { \* n=1 ... : TOML only
      [tag |-> "file", text |-> <<"n", "=", "1">>,
       toml |-> Parsed(FullConfig), json |-> Failed, jsonc |-> Failed],
      \* {} after white space: JSON and JSONC
      [tag |-> "file", text |-> <<" ", "\n", "{", "}">>,
       toml |-> Failed, json |-> Parsed(EmptyConfig), jsonc |-> Parsed(EmptyConfig)],
      \* { // comment } : JSONC only
      [tag |-> "file", text |-> <<"{", "/", "/", "\n", "}">>,
       toml |-> Failed, json |-> Failed, jsonc |-> Parsed(KvOnlyConfig)],
      \* { : no parser accepts it
      [tag |-> "file", text |-> <<"{">>,
       toml |-> Failed, json |-> Failed, jsonc |-> Failed],
      \* the empty file: an empty TOML document
      [tag |-> "file", text |-> <<>>,
       toml |-> Parsed(EmptyConfig), json |-> Failed, jsonc |-> Failed] }

parseToml(content) == content.toml
JSONparse(content) == content.json
parseJsonc(content) == content.jsonc

WhiteSpace == {" ", "\n"}

\* String.prototype.trim
Trim(s) ==
    LET solid == {i \in 1..Len(s) : s[i] \notin WhiteSpace}
    IN IF solid = {} THEN <<>>
       ELSE SubSeq(s, CHOOSE i \in solid : \A j \in solid : i <= j,
                      CHOOSE i \in solid : \A j \in solid : j <= i)

existsSync(path) == path \in DOMAIN fs /\ fs[path] # NoFile

--------------------------------------------------------------------------
(* config.ts: findWranglerConfig, parseWranglerConfig, discoverBindings    *)

PathValue(p) == [tag |-> "path", path |-> p]

\* the loop of findWranglerConfig from index i on
RECURSIVE FindFrom(_, _)
FindFrom(directory, i) ==
    IF i > Len(WRANGLER_CONFIG_FILES) THEN Null
    ELSE LET configPath == Resolve(directory, WRANGLER_CONFIG_FILES[i])
         IN IF existsSync(configPath) THEN PathValue(configPath)
            ELSE FindFrom(directory, i + 1)

\* findWranglerConfig with the loop keeping the last existing file, not the first
findWranglerConfig_LastWins(directory) ==
    LET hits == {i \in 1..Len(WRANGLER_CONFIG_FILES) :
                   existsSync(Resolve(directory, WRANGLER_CONFIG_FILES[i]))}
    IN IF hits = {} THEN Null
       ELSE PathValue(Resolve(directory,
              WRANGLER_CONFIG_FILES[CHOOSE i \in hits : \A j \in hits : j <= i]))

findWranglerConfig(directory) == FindFrom(directory, 1)

NotFoundMessage(path) == <<"Wrangler config not found at: ">> \o path

\* which parser parseWranglerConfig hands the content to
ParserFor(ext, content) ==
    CASE ext = <<".", "toml">> -> "toml"
      [] ext = <<".", "json">> -> "json"
      [] ext = <<".", "jsonc">> -> "jsonc"
      [] OTHER -> IF StartsWith(Trim(content.text), <<"{">>) THEN "jsonc" ELSE "toml"

RunParser(parser, content) ==
    CASE parser = "toml" -> parseToml(content)
      [] parser = "json" -> JSONparse(content)
      [] parser = "jsonc" -> parseJsonc(content)

\* parseWranglerConfig comparing the extension without lower-casing it
parseWranglerConfig_CaseSensitive(configPath) ==
    IF ~existsSync(configPath)
    THEN [outcome |-> "error", message |-> NotFoundMessage(configPath),
          reads |-> <<>>, parser |-> "none"]
    ELSE LET content == fs[configPath]
             parser == ParserFor(extname(configPath), content)
             res == RunParser(parser, content)
         IN IF res.ok
            THEN [outcome |-> "value", value |-> res.config,
                  reads |-> <<configPath>>, parser |-> parser]
            ELSE [outcome |-> "error", message |-> <<"parse error: ", parser>>,
                  reads |-> <<configPath>>, parser |-> parser]

\* the outcome of parseWranglerConfig(configPath): what it returns or throws,
\* the files it read and the parser it ran
parseWranglerConfig(configPath) ==
    IF ~existsSync(configPath)
    THEN [outcome |-> "error", message |-> NotFoundMessage(configPath),
          reads |-> <<>>, parser |-> "none"]
    ELSE LET content == fs[configPath]
             ext == ToLowerCase(extname(configPath))
             parser == ParserFor(ext, content)
             res == RunParser(parser, content)
         IN IF res.ok
            THEN [outcome |-> "value", value |-> res.config,
                  reads |-> <<configPath>>, parser |-> parser]
            ELSE [outcome |-> "error", message |-> <<"parse error: ", parser>>,
                  reads |-> <<configPath>>, parser |-> parser]

\* discoverBindings without the default for the durable-object bindings
discoverBindings_NoDefault(cfg) ==
    [d1 |-> Coalesce(cfg.d1_databases, List(<<>>)),
     kv |-> Coalesce(cfg.kv_namespaces, List(<<>>)),
     r2 |-> Coalesce(cfg.r2_buckets, List(<<>>)),
     durableObjects |-> OptChain(cfg.durable_objects, "bindings"),
     queues |-> [producers |-> Coalesce(OptChain(cfg.queues, "producers"), List(<<>>)),
                 consumers |-> Coalesce(OptChain(cfg.queues, "consumers"), List(<<>>))],
     vars |-> Coalesce(cfg.vars, Map(<<>>))]

discoverBindings(cfg) ==
    [d1 |-> Coalesce(cfg.d1_databases, List(<<>>)),
     kv |-> Coalesce(cfg.kv_namespaces, List(<<>>)),
     r2 |-> Coalesce(cfg.r2_buckets, List(<<>>)),
     durableObjects |-> Coalesce(OptChain(cfg.durable_objects, "bindings"), List(<<>>)),
     queues |-> [producers |-> Coalesce(OptChain(cfg.queues, "producers"), List(<<>>)),
                 consumers |-> Coalesce(OptChain(cfg.queues, "consumers"), List(<<>>))],
     vars |-> Coalesce(cfg.vars, Map(<<>>))]

--------------------------------------------------------------------------
(* dummy-data-generator.ts: text                                           *)

LowerLetters ==
    <<"a", "b", "c", "d", "e", "f", "g", "h", "i", "j", "k", "l", "m",
      "n", "o", "p", "q", "r", "s", "t", "u", "v", "w", "x", "y", "z">>

UpperLetters ==
    <<"A", "B", "C", "D", "E", "F", "G", "H", "I", "J", "K", "L", "M",
      "N", "O", "P", "Q", "R", "S", "T", "U", "V", "W", "X", "Y", "Z">>

UpperChar(c) ==
    IF \E i \in 1..Len(LowerLetters) : LowerLetters[i] = c
    THEN UpperLetters[CHOOSE i \in 1..Len(LowerLetters) : LowerLetters[i] = c]
    ELSE c

\* String.prototype.toUpperCase on a sequence of characters
ToUpperCase(s) == [i \in 1..Len(s) |-> UpperChar(s[i])]

\* the declared column types of the model, as sequences of characters
ColumnTypes ==
    { <<"I", "N", "T", "E", "G", "E", "R">>,
      <<"i", "n", "t", "e", "g", "e", "r">>,
      <<"I", "n", "t", "e", "g", "e", "r">>,
      <<"I", "N", "T">>,
      <<"B", "I", "G", "I", "N", "T">>,
      <<"T", "E", "X", "T">>,
      <<"V", "A", "R", "C", "H", "A", "R">>,
      <<"D", "A", "T", "E", "T", "I", "M", "E">>,
      <<"T", "I", "M", "E", "S", "T", "A", "M", "P">>,
      <<"D", "A", "T", "E">>,
      <<"T", "I", "M", "E">>,
      <<"R", "E", "A", "L">>,
      <<"D", "O", "U", "B", "L", "E">>,
      <<"F", "L", "O", "A", "T">>,
      <<"B", "O", "O", "L", "E", "A", "N">>,
      <<"N", "U", "M", "E", "R", "I", "C">>,
      <<"D", "E", "C", "I", "M", "A", "L">>,
      <<"B", "L", "O", "B">>,
      <<"P", "O", "I", "N", "T">>,
      <<>> }

\* the declared types of the columns of generated rows
RowColumnTypes ==
    { <<"I", "N", "T", "E", "G", "E", "R">>,
      <<"i", "n", "t", "e", "g", "e", "r">>,
      <<"I", "N", "T">>,
      <<"B", "I", "G", "I", "N", "T">>,
      <<"T", "E", "X", "T">> }

T_INTEGER == <<"I", "N", "T", "E", "G", "E", "R">>
T_DATETIME == <<"D", "A", "T", "E", "T", "I", "M", "E">>
T_TIMESTAMP == <<"T", "I", "M", "E", "S", "T", "A", "M", "P">>
T_DATE == <<"D", "A", "T", "E">>
T_TIME == <<"T", "I", "M", "E">>
T_INT == <<"I", "N", "T">>
T_REAL == <<"R", "E", "A", "L">>
T_FLOAT == <<"F", "L", "O", "A", "T">>
T_DOUBLE == <<"D", "O", "U", "B", "L", "E">>
T_BOOL == <<"B", "O", "O", "L">>
T_NUMERIC == <<"N", "U", "M", "E", "R", "I", "C">>
T_DECIMAL == <<"D", "E", "C", "I", "M", "A", "L">>
T_BLOB == <<"B", "L", "O", "B">>

--------------------------------------------------------------------------
(* dummy-data-generator.ts: column names and the date/time patterns.  A    *)
(* column name is a sequence of words and "_"; the words are the           *)
(* alternatives of the patterns and a few others.                          *)

LowerName(w) ==
    CASE w = "Created" -> "created"
      [] w = "AT" -> "at"
      [] w = "Date" -> "date"
      [] OTHER -> w

NameToLowerCase(name) == [i \in 1..Len(name) |-> LowerName(name[i])]

\* word, then an optional "_", then one of tails (or nothing when tailOptional)
WordTail(name, words, tails, tailOptional) ==
    /\ Len(name) >= 1
    /\ name[1] \in words
    /\ LET rest == IF Len(name) >= 2 /\ name[2] = "_"
                   THEN SubSeq(name, 3, Len(name))
                   ELSE SubSeq(name, 2, Len(name))
       IN \/ Len(rest) = 1 /\ rest[1] \in tails
          \/ tailOptional /\ rest = <<>>

\* TIME_ONLY_PATTERNS: /^(start|end)_?time$/i, /^time$/i
MatchesTimeOnly(name) ==
    \/ WordTail(name, {"start", "end"}, {"time"}, FALSE)
    \/ name = <<"time">>

\* DATE_ONLY_PATTERNS: /^(birth|event|start|end|due)_?date$/i, /^date$/i, /^.*_date$/i
MatchesDateOnly(name) ==
    \/ WordTail(name, {"birth", "event", "start", "end", "due"}, {"date"}, FALSE)
    \/ name = <<"date">>
    \/ EndsWith(name, <<"_", "date">>)

\* DATE_TIME_PATTERNS
MatchesDateTime(name) ==
    \/ WordTail(name, {"created", "updated", "deleted", "modified", "published",
                       "expire", "expires"}, {"at"}, FALSE)
    \/ WordTail(name, {"created", "updated", "deleted", "modified", "published"},
                {"date", "time", "on"}, FALSE)
    \/ WordTail(name, {"start", "end", "begin", "finish", "due", "birth", "event"},
                {"date", "time", "at"}, TRUE)
    \/ WordTail(name, {"date"}, {"of", "created", "updated", "time"}, TRUE)
    \/ name = <<"timestamp">>
    \/ EndsWith(name, <<"_", "timestamp">>)

matchesDateTimePattern_DateTimeFirst(name) ==
    LET lowerName == NameToLowerCase(name)
    IN IF MatchesDateTime(lowerName) THEN "datetime"
       ELSE IF MatchesTimeOnly(lowerName) THEN "time"
       ELSE IF MatchesDateOnly(lowerName) THEN "date"
       ELSE "null"

matchesDateTimePattern(name) ==
    LET lowerName == NameToLowerCase(name)
    IN IF MatchesTimeOnly(lowerName) THEN "time"
       ELSE IF MatchesDateOnly(lowerName) THEN "date"
       ELSE IF MatchesDateTime(lowerName) THEN "datetime"
       ELSE "null"

--------------------------------------------------------------------------
(* dummy-data-generator.ts: generateValueForColumn, generateDummyRow       *)

\* a value drawn from Faker, named by the call that draws it
Faker(kind) == [tag |-> "faker", kind |-> kind]

generateValueForColumn(column) ==
    LET type == ToUpperCase(column.type)
        dateTimeMatch == matchesDateTimePattern(column.name)
    IN IF column.pk = 1 /\ ToUpperCase(column.type) = T_INTEGER THEN Undefined
       ELSE IF Includes(type, T_DATETIME) \/ Includes(type, T_TIMESTAMP) THEN Faker("iso datetime")
       ELSE IF type = T_DATE THEN Faker("date")
       ELSE IF type = T_TIME THEN Faker("time")
       ELSE IF Includes(type, T_INT) THEN Faker("int 1..1000")
       ELSE IF Includes(type, T_REAL) \/ Includes(type, T_FLOAT) \/ Includes(type, T_DOUBLE)
            THEN Faker("float 0..100")
       ELSE IF Includes(type, T_BOOL) THEN Faker("boolean 0/1")
       ELSE IF Includes(type, T_NUMERIC) \/ Includes(type, T_DECIMAL) THEN Faker("float 0..1000")
       ELSE IF Includes(type, T_BLOB) THEN Null
       ELSE IF dateTimeMatch = "datetime" THEN Faker("iso datetime")
       ELSE IF dateTimeMatch = "date" THEN Faker("date")
       ELSE IF dateTimeMatch = "time" THEN Faker("time")
       ELSE Faker("words")

\* foreignKeyValues && foreignKeyValues[col.name]?.length > 0
HasForeignKeyValues(foreignKeyValues, name) ==
    /\ foreignKeyValues.tag = "map"
    /\ name \in DOMAIN foreignKeyValues.entries
    /\ Len(foreignKeyValues.entries[name]) > 0

MaxColumns == 2

ColumnNames == { <<"id">>, <<"user", "_", "id">>, <<"created", "_", "at">> }

RowColumns == [name : ColumnNames, type : RowColumnTypes, pk : {0, 1, 2}]

\* table schemas: up to MaxColumns columns with different names
Schemas ==
    UNION { { sch \in [1..n -> RowColumns] :
                \A i, j \in 1..n : i # j => sch[i].name # sch[j].name } :
            n \in 0..MaxColumns }

Cell(v) == [tag |-> "cell", value |-> v]

\* foreignKeyValues: absent, or lists of referenced values for some columns
ForeignKeyInputs ==
    {Undefined} \cup
    { Map(f) : f \in UNION { [D -> { <<>>, <<Cell(7), Cell(8)>> }] :
                             D \in SUBSET { <<"id">>, <<"user", "_", "id">> } } }

\* one iteration of the loop of generateDummyRow; the loop ends in return row
RowStep ==
    /\ ddIdx <= Len(ddSchema)
    /\ LET col == ddSchema[ddIdx]
       IN IF HasForeignKeyValues(ddFk, col.name)
          THEN \E k \in 1..Len(ddFk.entries[col.name]) :
                  ddRow' = (col.name :> ddFk.entries[col.name][k]) @@ ddRow
          ELSE LET value == generateValueForColumn(col)
               IN IF value # Undefined
                  THEN ddRow' = (col.name :> value) @@ ddRow
                  ELSE ddRow' = ddRow
    /\ ddIdx' = ddIdx + 1
    /\ UNCHANGED <<ddSchema, ddFk, cfgVars, lfVars, dialogVars, treeVars, counterVars, webVars>>

\* generateDummyRow has returned ddRow
RowReturned == ddIdx > Len(ddSchema)

\* columns of every declared type, with names for each of the name patterns
ValueColumnNames ==
    { <<"id">>, <<"name">>, <<"created", "_", "at">>, <<"Created", "AT">>,
      <<"start", "_", "time">>, <<"start", "date">>, <<"time">>, <<"Date">>,
      <<"x", "_", "date">>, <<"due">>, <<"timestamp">>, <<"x", "_", "timestamp">> }

ValueColumns == [name : ValueColumnNames, type : ColumnTypes, pk : {0, 1}]

--------------------------------------------------------------------------
(* DummyDataGeneratorDialog                                                *)

MaxInputLen == 3

InputChars == {"0", "1", "9", "-", "e", "a", " "}

Digits == <<"0", "1", "2", "3", "4", "5", "6", "7", "8", "9">>

IsDigit(c) == \E d \in 1..10 : Digits[d] = c

DigitValue(c) == (CHOOSE d \in 1..10 : Digits[d] = c) - 1

\* the value of a sequence of decimal digits
RECURSIVE DigitsValue(_)
DigitsValue(ds) ==
    IF ds = <<>> THEN 0
    ELSE 10 * DigitsValue(SubSeq(ds, 1, Len(ds) - 1)) + DigitValue(ds[Len(ds)])

NaN == [nan |-> TRUE]
Num(n) == [nan |-> FALSE, value |-> n]

\* the length of the longest prefix of s whose characters satisfy Test
PrefixLen(s, Test(_)) ==
    LET stops == {i \in 1..Len(s) : ~Test(s[i])}
    IN IF stops = {} THEN Len(s)
       ELSE (CHOOSE i \in stops : \A j \in stops : i <= j) - 1

IsWhiteSpace(c) == c \in WhiteSpace

\* parseInt(s, 10): skip leading white space, read an optional sign, then the
\* longest run of decimal digits; NaN when that run is empty
parseInt(s) ==
    LET t == SubSeq(s, PrefixLen(s, IsWhiteSpace) + 1, Len(s))
        negative == Len(t) > 0 /\ t[1] = "-"
        u == IF Len(t) > 0 /\ t[1] \in {"-", "+"} THEN SubSeq(t, 2, Len(t)) ELSE t
        n == PrefixLen(u, IsDigit)
    IN IF n = 0 THEN NaN
       ELSE Num((IF negative THEN -1 ELSE 1) * DigitsValue(SubSeq(u, 1, n)))

\* the condition of handleRowCountChange without the upper limit
AcceptsRowCount_NoMax(value) == ~value.nan /\ value.value >= 1

\* the condition under which handleRowCountChange calls setRowCount
AcceptsRowCount(value) == ~value.nan /\ value.value >= 1 /\ value.value <= 100

\* rowCount after handleRowCountChange with e.target.value = text
handleRowCountChange(text, count) ==
    LET value == parseInt(text)
    IN IF AcceptsRowCount(value) THEN value.value ELSE count

\* the text is a valid floating-point number of HTML: an optional "-",
\* digits, and optionally "e", an optional "-" and digits
ValidFloatingPoint(text) ==
    LET unsigned == IF Len(text) > 0 /\ text[1] = "-" THEN SubSeq(text, 2, Len(text)) ELSE text
        es == {i \in 1..Len(unsigned) : unsigned[i] = "e"}
        at == IF es = {} THEN Len(unsigned) + 1 ELSE CHOOSE i \in es : \A j \in es : i <= j
        mant == SubSeq(unsigned, 1, at - 1)
        expo == SubSeq(unsigned, at + 1, Len(unsigned))
        expoDigits == IF Len(expo) > 0 /\ expo[1] = "-" THEN SubSeq(expo, 2, Len(expo)) ELSE expo
    IN /\ mant # <<>> /\ \A i \in 1..Len(mant) : IsDigit(mant[i])
       /\ \A i \in 1..Len(expoDigits) : IsDigit(expoDigits[i])
       /\ es # {} => expoDigits # <<>>

\* e.target.value of an input of type "number" holding text: the text when
\* it is a valid floating-point number, the empty string otherwise
InputValue(text) == IF ValidFloatingPoint(text) THEN text ELSE <<>>

\* a key typed at the end of the row-count input, and the change event it fires
KeyChar(c) ==
    /\ ~isGenerating
    /\ Len(pending) < MaxInputLen
    /\ pending' = Append(pending, c)
    /\ rowCount' = handleRowCountChange(InputValue(pending'), rowCount)
    /\ changeSeq' = 1 - changeSeq
    /\ UNCHANGED <<isGenerating, generateCalls, cfgVars, lfVars, rowVars, treeVars, counterVars, webVars>>

\* a key typed at the start of the row-count input, and the change event it fires
KeyCharAtStart(c) ==
    /\ ~isGenerating
    /\ Len(pending) < MaxInputLen
    /\ pending' = <<c>> \o pending
    /\ rowCount' = handleRowCountChange(InputValue(pending'), rowCount)
    /\ changeSeq' = 1 - changeSeq
    /\ UNCHANGED <<isGenerating, generateCalls, cfgVars, lfVars, rowVars, treeVars, counterVars, webVars>>

\* the row-count input emptied, and the change event that fires
ClearInput ==
    /\ ~isGenerating
    /\ pending # <<>>
    /\ pending' = <<>>
    /\ rowCount' = handleRowCountChange(InputValue(pending'), rowCount)
    /\ changeSeq' = 1 - changeSeq
    /\ UNCHANGED <<isGenerating, generateCalls, cfgVars, lfVars, rowVars, treeVars, counterVars, webVars>>

\* the Generate button: handleGenerate calls onGenerate(rowCount), and the
\* parent shows the generation as in progress
HandleGenerate ==
    /\ ~(isGenerating \/ rowCount < 1)
    /\ generateCalls' = <<rowCount>>
    /\ isGenerating' = TRUE
    /\ UNCHANGED <<rowCount, pending, changeSeq, cfgVars, lfVars, rowVars, treeVars, counterVars, webVars>>

\* the parent ends the generation
GenerationDone ==
    /\ isGenerating
    /\ isGenerating' = FALSE
    /\ UNCHANGED <<rowCount, pending, changeSeq, generateCalls, cfgVars, lfVars, rowVars, treeVars, counterVars, webVars>>

--------------------------------------------------------------------------
(* FileTree.tsx: buildFileTree.  An object key is the sequence of its      *)
(* segments, key.split("/"); the only segment that begins with ".keep" is  *)
(* ".keep" itself.                                                         *)

MaxObjects == 3

Keys ==
    { <<"a">>, <<"b">>, <<".keep">>,
      <<"a", "b">>, <<"b", "a">>,
      <<"a", ".keep">>, <<"a", "b", ".keep">>,
      <<"a", "">>, <<"a", "", "b">>, <<"", ".keep">>,
      <<"a", ".keep", "b">>, <<"a", ".keep", "b", ".keep">> }

\* lists of up to MaxObjects objects with different keys; the size of an
\* object tells it from the others
ObjectLists ==
    UNION { { [i \in 1..n |-> [key |-> ks[i], size |-> 10 * i]] :
                ks \in { f \in [1..n -> Keys] :
                           \A i, j \in 1..n : i # j => f[i] # f[j] } } :
            n \in 0..MaxObjects }

\* key.endsWith('/.keep')
EndsWithSlashKeep(key) == Len(key) >= 2 /\ key[Len(key)] = ".keep"

\* key !== '.keep' && !key.endsWith('/.keep')
IsShown(key) == ~EndsWithSlashKeep(key) /\ key # <<".keep">>

\* key.replace('/.keep', ''): the first "/.keep" of the key is removed
ReplaceSlashKeep(key) ==
    LET at == {i \in 2..Len(key) : key[i] = ".keep"}
        first == CHOOSE i \in at : \A j \in at : i <= j
    IN IF at = {} THEN key
       ELSE SubSeq(key, 1, first - 1) \o SubSeq(key, first + 1, Len(key))

KeyIsShown(obj) == IsShown(obj.key)

filteredObjects == IF ftHide THEN SelectSeq(ftObjects, KeyIsShown) ELSE ftObjects

\* the inner loop of both passes from part i on, at the children list of
\* node level (0: the root): find the node named like the part among the
\* children or create it, and descend into its children when it has any.
\* The first pass makes the last part a file; the .keep pass makes folders.
RECURSIVE AddPath(_, _, _, _, _, _)
AddPath(t, parts, i, level, filePass, size) ==
    IF i > Len(parts) THEN t
    ELSE IF parts[i] = "" THEN AddPath(t, parts, i + 1, level, filePass, size)
    ELSE
      LET isFile == filePass /\ i = Len(parts)
          hits == {x \in 1..Len(t.kids[level]) : t.nodes[t.kids[level][x]].name = parts[i]}
          found == hits # {}
          id == IF found
                THEN t.kids[level][CHOOSE x \in hits : \A y \in hits : x <= y]
                ELSE Len(t.nodes) + 1
          newNode == [name |-> parts[i],
                      path |-> SubSeq(parts, 1, i),
                      type |-> IF isFile THEN "file" ELSE "folder",
                      size |-> IF isFile THEN <<size>> ELSE <<>>,
                      hasChildren |-> ~isFile]
          t2 == IF found THEN t
                ELSE [nodes |-> Append(t.nodes, newNode),
                      kids |-> [k \in 0..id |->
                                  IF k = level THEN Append(t.kids[level], id)
                                  ELSE IF k = id THEN <<>>
                                  ELSE t.kids[k]]]
          descend == ~isFile /\ t2.nodes[id].hasChildren
      IN AddPath(t2, parts, i + 1, IF descend THEN id ELSE level, filePass, size)

\* String.prototype.localeCompare on the names of the model: punctuation
\* before letters, letters in alphabetical order
NameRank(name) ==
    CASE name = ".keep" -> 1
      [] name = "a" -> 2
      [] name = "b" -> 3
      [] OTHER -> 0

\* the comparator of sortNodes is negative: a sorts before b
NodeBefore_ByNameOnly(a, b) == NameRank(a.name) < NameRank(b.name)

NodeBefore(a, b) ==
    IF a.type # b.type THEN a.type = "folder"
    ELSE NameRank(a.name) < NameRank(b.name)

\* sortNodes on every children list of the tree
sortNodes(nodes, kids) ==
    [k \in DOMAIN kids |->
        SortSeq(kids[k], LAMBDA x, y : NodeBefore(nodes[x], nodes[y]))]

\* the first loop: one object of filteredObjects
InsertObject ==
    /\ ftI <= Len(filteredObjects)
    /\ LET obj == filteredObjects[ftI]
           t == AddPath([nodes |-> ftNodes, kids |-> ftKids], obj.key, 1, 0, TRUE, obj.size)
       IN /\ ftNodes' = t.nodes
          /\ ftKids' = t.kids
    /\ ftI' = ftI + 1
    /\ UNCHANGED <<ftObjects, ftHide, ftK, ftSorted, cfgVars, lfVars, rowVars, dialogVars, counterVars, webVars>>

\* the second loop (hideKeepFiles only): one object of objects
KeepStep ==
    /\ ftI > Len(filteredObjects)
    /\ ftHide
    /\ ftK <= Len(ftObjects)
    /\ LET obj == ftObjects[ftK]
           t == IF EndsWithSlashKeep(obj.key)
                THEN AddPath([nodes |-> ftNodes, kids |-> ftKids],
                             ReplaceSlashKeep(obj.key), 1, 0, FALSE, obj.size)
                ELSE [nodes |-> ftNodes, kids |-> ftKids]
       IN /\ ftNodes' = t.nodes
          /\ ftKids' = t.kids
    /\ ftK' = ftK + 1
    /\ UNCHANGED <<ftObjects, ftHide, ftI, ftSorted, cfgVars, lfVars, rowVars, dialogVars, counterVars, webVars>>

\* return sortNodes(root)
SortAndReturn ==
    /\ ftI > Len(filteredObjects)
    /\ ~ftHide \/ ftK > Len(ftObjects)
    /\ ~ftSorted
    /\ ftKids' = sortNodes(ftNodes, ftKids)
    /\ ftSorted' = TRUE
    /\ UNCHANGED <<ftObjects, ftHide, ftNodes, ftI, ftK, cfgVars, lfVars, rowVars, dialogVars, counterVars, webVars>>

--------------------------------------------------------------------------
(* The Counter durable object and the /api/counter/:name routes.  The      *)
(* platform delivers the requests of one object one at a time: while an    *)
(* object awaits its storage no other request is delivered to it.  The     *)
(* objects of different ids run interleaved.                               *)

MaxCount == 2

CounterNames == {"A", "B"}

ObjectIds == {"idA", "idB"}

\* c.env.COUNTER.idFromName(name)
idFromName_OneObject(name) == "idA"

idFromName(name) == IF name = "A" THEN "idA" ELSE "idB"

\* the paths the routes request from the object
Pathnames == {"/", "/increment", "/decrement", "/reset"}

Number(n) == [tag |-> "number", value |-> n]

Idle == [pc |-> "idle"]

NoResponse == [tag |-> "none"]

\* this.ctx.storage.put('value', v)
StoragePut_Dropped(storage, id, v) == storage

StoragePut(storage, id, v) == [storage EXCEPT ![id] = Number(v)]

\* this.value after the case of the switch for the pathname
NextValue_DecrementAdds(pathname, value) ==
    CASE pathname = "/increment" -> value + 1
      [] pathname = "/decrement" -> value + 1
      [] pathname = "/reset" -> 0
      [] OTHER -> value

NextValue(pathname, value) ==
    CASE pathname = "/increment" -> value + 1
      [] pathname = "/decrement" -> value - 1
      [] pathname = "/reset" -> 0
      [] OTHER -> value

\* a route hands its request to the object of the name; an object that is
\* not in memory is constructed first (value = 0)
Deliver(name, pathname) ==
    LET id == idFromName(name)
        stored == Coalesce(ctStorage[id], Number(0)).value
    IN /\ ctReq[id] = Idle
       /\ pathname = "/increment" => stored < MaxCount
       /\ pathname = "/decrement" => stored > -MaxCount
       /\ ctReq' = [ctReq EXCEPT ![id] = [pc |-> "load", name |-> name,
                                          pathname |-> pathname,
                                          fresh |-> ~ctAlive[id]]]
       /\ ctAlive' = [ctAlive EXCEPT ![id] = TRUE]
       /\ ctValue' = [ctValue EXCEPT ![id] = IF ctAlive[id] THEN @ ELSE 0]
       /\ UNCHANGED <<ctStorage, ctResp, ctNet, ctFlight, cfgVars, lfVars, rowVars, dialogVars, treeVars, webVars>>

\* this.value = (await this.ctx.storage.get('value')) ?? 0
Load(id) ==
    /\ ctReq[id].pc = "load"
    /\ ctValue' = [ctValue EXCEPT ![id] = Coalesce(ctStorage[id], Number(0)).value]
    /\ ctReq' = [ctReq EXCEPT ![id].pc = "switch"]
    /\ UNCHANGED <<ctStorage, ctAlive, ctResp, ctNet, ctFlight, cfgVars, lfVars, rowVars, dialogVars, treeVars, webVars>>

\* the switch on the pathname, up to the await of storage.put
Switch(id) ==
    /\ ctReq[id].pc = "switch"
    /\ LET pathname == ctReq[id].pathname
           v == NextValue(pathname, ctValue[id])
       IN /\ ctValue' = [ctValue EXCEPT ![id] = v]
          /\ ctStorage' = IF pathname \in {"/increment", "/decrement", "/reset"}
                          THEN StoragePut(ctStorage, id, v)
                          ELSE ctStorage
    /\ ctReq' = [ctReq EXCEPT ![id].pc = "respond"]
    /\ UNCHANGED <<ctAlive, ctResp, ctNet, ctFlight, cfgVars, lfVars, rowVars, dialogVars, treeVars, webVars>>

\* return Response.json({ value: this.value }), passed on by the route
Respond(id) ==
    /\ ctReq[id].pc = "respond"
    /\ ctResp' = [ctResp EXCEPT ![ctReq[id].name] =
                    [tag |-> "response", value |-> ctValue[id],
                     pathname |-> ctReq[id].pathname, fresh |-> ctReq[id].fresh]]
    /\ ctNet' = [ctNet EXCEPT ![ctReq[id].name] =
                    CASE ctReq[id].pathname = "/increment" -> @ + 1
                      [] ctReq[id].pathname = "/decrement" -> @ - 1
                      [] ctReq[id].pathname = "/reset" -> 0
                      [] OTHER -> @]
    /\ ctReq' = [ctReq EXCEPT ![id] = Idle]
    /\ UNCHANGED <<ctStorage, ctAlive, ctValue, ctFlight, cfgVars, lfVars, rowVars, dialogVars, treeVars, webVars>>

\* between two requests the platform discards the instance of an object (or
\* the worker restarts); the storage of the object stays
Evict(id) ==
    /\ ctReq[id] = Idle
    /\ ctAlive[id]
    /\ ctAlive' = [ctAlive EXCEPT ![id] = FALSE]
    /\ UNCHANGED <<ctStorage, ctValue, ctReq, ctResp, ctNet, ctFlight, cfgVars, lfVars, rowVars, dialogVars, treeVars, webVars>>

\* Requests of one object in flight together.  The routes call stub.fetch
\* for the object of name "A" before the earlier calls are answered; each
\* request runs Counter.fetch on the one instance of the object, whose
\* this.value and storage they share.  Counter extends DurableObject: while
\* a request awaits this.ctx.storage the platform delivers no other request
\* to the object (its input gate), only the completion of the storage call.

MaxFlight == 3

\* the paths of the requests that update the counter
UpdatePathnames == {"/increment", "/decrement"}

\* the values stored for the object before the requests are sent
InitialValues == {Undefined, Number(0), Number(1), Number(-1)}

\* the requests of the object that have been sent and not yet answered
InFlight == {i \in 1..Len(ctFlight) : ctFlight[i].pc # "done"}

\* the object accepts the next request: no request awaits its storage
GateOpen_Always == TRUE

GateOpen == \A i \in 1..Len(ctFlight) : ctFlight[i].pc \notin {"get", "put"}

\* app.post('/api/counter/:name/increment' or '/decrement'): stub.fetch
FlightSend(pathname) ==
    /\ Len(ctFlight) < MaxFlight
    /\ ctFlight' = Append(ctFlight, [pathname |-> pathname, pc |-> "sent",
                                     got |-> Undefined, answer |-> 0,
                                     pending |-> Cardinality(InFlight)])
    /\ UNCHANGED <<ctStorage, ctAlive, ctValue, ctReq, ctResp, ctNet, cfgVars, lfVars, rowVars, dialogVars, treeVars, webVars>>

\* the object takes up a request: fetch runs up to the await of
\* this.ctx.storage.get('value'), which reads the storage
FlightStart(i) ==
    LET id == idFromName("A")
    IN /\ ctFlight[i].pc = "sent"
       /\ GateOpen
       /\ ctFlight' = [ctFlight EXCEPT ![i].pc = "get", ![i].got = ctStorage[id]]
       /\ ctAlive' = [ctAlive EXCEPT ![id] = TRUE]
       /\ ctValue' = [ctValue EXCEPT ![id] = IF ctAlive[id] THEN @ ELSE 0]
       /\ UNCHANGED <<ctStorage, ctReq, ctResp, ctNet, cfgVars, lfVars, rowVars, dialogVars, treeVars, webVars>>

\* the get is complete: this.value = ... ?? 0, the case of the switch, up to
\* the await of this.ctx.storage.put('value', this.value)
FlightGetDone(i) ==
    LET id == idFromName("A")
        v == NextValue(ctFlight[i].pathname, Coalesce(ctFlight[i].got, Number(0)).value)
    IN /\ ctFlight[i].pc = "get"
       /\ ctValue' = [ctValue EXCEPT ![id] = v]
       /\ ctStorage' = StoragePut(ctStorage, id, v)
       /\ ctFlight' = [ctFlight EXCEPT ![i].pc = "put"]
       /\ UNCHANGED <<ctAlive, ctReq, ctResp, ctNet, cfgVars, lfVars, rowVars, dialogVars, treeVars, webVars>>

\* the put is complete: return Response.json({ value: this.value })
FlightPutDone(i) ==
    /\ ctFlight[i].pc = "put"
    /\ ctFlight' = [ctFlight EXCEPT ![i].pc = "done",
                                    ![i].answer = ctValue[idFromName("A")]]
    /\ UNCHANGED <<ctStorage, ctAlive, ctValue, ctReq, ctResp, ctNet, cfgVars, lfVars, rowVars, dialogVars, treeVars, webVars>>

--------------------------------------------------------------------------
(* substituteParams (localflare.ts, and the two copies of the dashboard    *)
(* worker).  A string is the sequence of its tokens: "{{" and "}}", the    *)
(* single characters "'", "$", "&", " " and "-", the backquote (written    *)
(* "backquote"), decimal digits, and words.  The placeholder of key k is   *)
(* <<"{{", k, "}}">>; escaping it for the RegExp makes the pattern match   *)
(* exactly these tokens.                                                   *)

MaxParams == 2

Str(tokens) == [tag |-> "string", value |-> tokens]

\* ECMAScript GetSubstitution for a pattern without capture groups: in the
\* replacement text "$$" stands for "$", "$&" for the matched text, "$"
\* and a backquote for the text before the match and "$'" for the text
\* after it
RECURSIVE GetSubstitution(_, _, _, _)
GetSubstitution(replacement, matched, before, after) ==
    IF replacement = <<>> THEN <<>>
    ELSE IF Head(replacement) = "$" /\ Len(replacement) >= 2
              /\ replacement[2] \in {"$", "&", "backquote", "'"}
         THEN (CASE replacement[2] = "$" -> <<"$">>
                 [] replacement[2] = "&" -> matched
                 [] replacement[2] = "backquote" -> before
                 [] OTHER -> after)
              \o GetSubstitution(SubSeq(replacement, 3, Len(replacement)),
                                 matched, before, after)
         ELSE <<Head(replacement)>>
              \o GetSubstitution(Tail(replacement), matched, before, after)

\* text.replace(new RegExp(<pattern>, 'g'), replacement) from position i on:
\* the matches are found in text from left to right and do not overlap
RECURSIVE ReplaceAllFrom(_, _, _, _)
ReplaceAllFrom(text, i, pattern, replacement) ==
    IF i > Len(text) THEN <<>>
    ELSE IF i + Len(pattern) - 1 <= Len(text)
              /\ SubSeq(text, i, i + Len(pattern) - 1) = pattern
         THEN GetSubstitution(replacement, pattern, SubSeq(text, 1, i - 1),
                              SubSeq(text, i + Len(pattern), Len(text)))
              \o ReplaceAllFrom(text, i + Len(pattern), pattern, replacement)
         ELSE <<text[i]>> \o ReplaceAllFrom(text, i + 1, pattern, replacement)

\* value.replace(/'/g, "''")
RECURSIVE DoubleQuotes(_)
DoubleQuotes(value) ==
    IF value = <<>> THEN <<>>
    ELSE (IF Head(value) = "'" THEN <<"'", "'">> ELSE <<Head(value)>>)
         \o DoubleQuotes(Tail(value))

\* String(value) of an integer
RECURSIVE NaturalToString(_)
NaturalToString(n) ==
    IF n < 10 THEN <<Digits[n + 1]>>
    ELSE NaturalToString(n \div 10) \o <<Digits[(n % 10) + 1]>>

NumberToString(n) == IF n < 0 THEN <<"-">> \o NaturalToString(-n) ELSE NaturalToString(n)

\* (SECOND|MINUTE|HOUR|DAY|WEEK|MONTH|YEAR) under the flag i
IntervalUnits == {"SECOND", "MINUTE", "HOUR", "DAY", "WEEK", "MONTH", "YEAR"}

UpperWord(w) ==
    CASE w = "day" -> "DAY"
      [] w = "Hour" -> "HOUR"
      [] w = "days" -> "DAYS"
      [] OTHER -> w

\* /^'\d+'\s+(SECOND|MINUTE|HOUR|DAY|WEEK|MONTH|YEAR)$/i.test(value)
isIntervalValue(value) ==
    /\ Len(value) >= 5
    /\ value[1] = "'"
    /\ LET digits == PrefixLen(Tail(value), IsDigit)
           afterDigits == SubSeq(value, digits + 2, Len(value))
       IN /\ digits >= 1
          /\ Len(afterDigits) >= 3
          /\ afterDigits[1] = "'"
          /\ LET spaces == PrefixLen(Tail(afterDigits), IsWhiteSpace)
                 unit == SubSeq(afterDigits, spaces + 2, Len(afterDigits))
             IN /\ spaces >= 1
                /\ Len(unit) = 1
                /\ UpperWord(unit[1]) \in IntervalUnits

\* escapedValue
escapedValue(value) ==
    IF value.tag = "string"
    THEN IF isIntervalValue(value.value) THEN value.value
         ELSE <<"'">> \o DoubleQuotes(value.value) \o <<"'">>
    ELSE NumberToString(value.value)

\* the forEach over Object.entries(params), from entry i on
RECURSIVE SubstituteFrom(_, _, _)
SubstituteFrom(result, entries, i) ==
    IF i > Len(entries) THEN result
    ELSE SubstituteFrom(
            ReplaceAllFrom(result, 1, <<"{{", entries[i].key, "}}">>,
                           escapedValue(entries[i].value)),
            entries, i + 1)

substituteParams(query, params) ==
    IF IsNullish(params) THEN query
    ELSE SubstituteFrom(query, params.items, 1)

ParamKeys == {"a", "b"}

ParamValues ==
    { Number(0), Number(7), Number(-12),
      Str(<<>>), Str(<<"x">>), Str(<<"x", "'", "x">>), Str(<<"7">>),
      Str(<<"'", "7", "'", " ", "DAY">>), Str(<<"'", "1", "2", "'", " ", " ", "day">>),
      Str(<<"'", "7", "'", " ", "Hour">>), Str(<<"'", "7", "'", "DAY">>),
      Str(<<"7", " ", "DAY">>), Str(<<"'", "7", "'", " ", "days">>),
      Str(<<"'", "x", "'", " ", "DAY">>), Str(<<"'", "7", "'", " ", "DAY", " ">>),
      Str(<<"$", "&">>), Str(<<"$", "'">>), Str(<<"$", "$">>), Str(<<"$", "x">>),
      Str(<<"{{", "b", "}}">>) }

\* params: absent, or up to MaxParams entries with different keys, in the
\* order of Object.entries
ParamInputs ==
    {Undefined} \cup
    { List(es) : es \in UNION { { e \in [1..n -> [key : ParamKeys, value : ParamValues]] :
                                    \A i, j \in 1..n : i # j => e[i].key # e[j].key } :
                                n \in 0..MaxParams } }

Queries ==
    { <<"x">>,
      <<"{{", "a", "}}">>,
      <<"x", "{{", "a", "}}", " ", "{{", "a", "}}", "x">>,
      <<"{{", "a", "}}", "{{", "b", "}}">>,
      <<"{{", "b", "}}", "x", "{{", "a", "}}">>,
      <<"{{", "c", "}}", "{{", "a", "}}">>,
      <<"{{", "a", "x", "}}">>,
      <<"{{", "{{", "a", "}}", "}}">> }

\* substituteParams(query, params) is called and returns
Substitute ==
    /\ spResult = Undefined
    /\ spResult' = Str(substituteParams(spQuery, spParams))
    /\ UNCHANGED <<spQuery, spParams, workerVars, apiVars, cfgVars, lfVars, rowVars,
                   dialogVars, treeVars, counterVars>>

--------------------------------------------------------------------------
(* The dashboard worker: the proxy of /api/analytics.  The repository      *)
(* holds two copies of it, "worker" (part_002) and "dashboard"; they       *)
(* differ in what happens when env.ASSETS.fetch fails.  A pathname is a    *)
(* sequence of tokens, "/api/analytics" being one token.                   *)

WorkerVariants == {"worker", "dashboard"}

ANALYTICS == <<"/api/analytics">>

WorkerPathnames ==
    { <<"/">>, <<"/index.html">>, <<"/api">>, <<"/x", "/api/analytics">>,
      <<"/api/analytics">>, <<"/api/analytics", "foo">>,
      <<"/api/analytics", "/health">>, <<"/api/analytics", "/health", "/">>,
      <<"/api/analytics", "/datasets">>,
      <<"/api/analytics", "/datasets", "/", "ds1", "/schema">>,
      <<"/api/analytics", "/datasets", "/", "a%20b", "/", "x", "/schema">>,
      <<"/api/analytics", "/datasets", "/", "%zz", "/schema">>,
      <<"/api/analytics", "/datasets", "/", "/schema">>,
      <<"/api/analytics", "/query">>, <<"/api/analytics", "/other">> }

Methods == {"GET", "POST", "OPTIONS", "DELETE"}

\* request.headers.get(name): null, or the value of the header
HeaderValues(v) == {Null, Str(<<>>), Str(<<v>>)}

\* the outcome of request.json(): a rejection, or the value read
Bodies ==
    { [ok |-> FALSE],
      [ok |-> TRUE, value |-> Null],
      [ok |-> TRUE, value |-> [tag |-> "object", query |-> <<"x">>, params |-> Undefined]],
      [ok |-> TRUE, value |-> [tag |-> "object", query |-> <<"{{", "a", "}}">>,
                               params |-> List(<<[key |-> "a", value |-> Str(<<"x">>)]>>)]] }

Requests ==
    [pathname : WorkerPathnames, method : Methods,
     accountId : HeaderValues("acct"), apiToken : HeaderValues("tok"), body : Bodies]

\* url.pathname.startsWith('/api/analytics')
IsAnalyticsRoute_Includes(pathname) == Includes(pathname, ANALYTICS)

IsAnalyticsRoute(pathname) == StartsWith(pathname, ANALYTICS)

\* url.pathname.replace('/api/analytics', ''): the first occurrence goes
SubPath(pathname) ==
    LET at == {i \in 1..Len(pathname) : pathname[i] = "/api/analytics"}
        first == CHOOSE i \in at : \A j \in at : i <= j
    IN IF at = {} THEN pathname
       ELSE SubSeq(pathname, 1, first - 1) \o SubSeq(pathname, first + 1, Len(pathname))

\* a header value that is neither null nor the empty string
Truthy_NotNull(v) == ~IsNullish(v)

Truthy(v) == ~IsNullish(v) /\ v.value # <<>>

\* path.match(/^\/datasets\/(.+)\/schema$/)
MatchesSchema(path) ==
    /\ Len(path) >= 4
    /\ path[1] = "/datasets"
    /\ path[2] = "/"
    /\ path[Len(path)] = "/schema"

\* path.split('/')[2]
SecondSegment(path) == IF path[3] = "/" THEN "" ELSE path[3]

\* decodeURIComponent: a URIError for a malformed escape
decodeURIComponent(text) ==
    CASE text = "%zz" -> [ok |-> FALSE]
      [] text = "a%20b" -> [ok |-> TRUE, value |-> "a b"]
      [] OTHER -> [ok |-> TRUE, value |-> text]

\* the branch of the if / else if chain of the try block
RouteOf_QueryAnyMethod(path, method) ==
    IF path = <<"/datasets">> THEN "datasets"
    ELSE IF MatchesSchema(path) THEN "schema"
    ELSE IF path = <<"/query">> THEN "query"
    ELSE "none"

RouteOf(path, method) ==
    IF path = <<"/datasets">> THEN "datasets"
    ELSE IF MatchesSchema(path) THEN "schema"
    ELSE IF path = <<"/query">> /\ method = "POST" THEN "query"
    ELSE "none"

\* the outcomes of the fetch handler
JsonResponse(status, error) ==
    [tag |-> "response", from |-> "worker", json |-> TRUE, status |-> status, error |-> error]

PlainResponse(status, text) ==
    [tag |-> "response", from |-> "worker", json |-> FALSE, status |-> status, error |-> text]

AssetsResponse ==
    [tag |-> "response", from |-> "assets", json |-> FALSE, status |-> 200, error |-> ""]

Rejected == [tag |-> "rejected"]

\* the answers of the Cloudflare API: fetch fails; a status that is not ok
\* (its text read or not); ok with a body that is not JSON, that is the JSON
\* null, or that is a result object
UpstreamAnswers == {"throws", "notok", "notok_unread", "ok_notjson", "ok_null", "ok"}

\* respond and finish
WorkerReturn(response) ==
    /\ wkResponses' = Append(wkResponses, response)
    /\ wkPc' = "done"

\* fetch(`${CF_API_BASE}/${accountId}/analytics_engine/sql`, ...), awaited
SendUpstream(sql) ==
    /\ wkUpstream' = Append(wkUpstream,
                            [accountId |-> wkRequest.accountId.value,
                             apiToken |-> wkRequest.apiToken.value,
                             sql |-> sql, answer |-> "pending"])
    /\ wkPc' = "upstream"

\* the fetch handler up to its first await or its return
WorkerFetch ==
    /\ wkPc = "start"
    /\ LET path == SubPath(wkRequest.pathname)
           route == RouteOf(path, wkRequest.method)
       IN IF ~IsAnalyticsRoute(wkRequest.pathname)
          THEN /\ wkAssets' = Append(wkAssets, wkRequest)
               /\ wkPc' = "assets"
               /\ UNCHANGED <<wkUpstream, wkResponses>>
          ELSE /\ UNCHANGED wkAssets
               /\ IF wkRequest.method = "OPTIONS"
                  THEN WorkerReturn(PlainResponse(204, "")) /\ UNCHANGED wkUpstream
                  ELSE IF path = <<"/health">>
                  THEN WorkerReturn(JsonResponse(200, "")) /\ UNCHANGED wkUpstream
                  ELSE IF ~Truthy(wkRequest.accountId) \/ ~Truthy(wkRequest.apiToken)
                  THEN WorkerReturn(JsonResponse(400, "Missing credentials"))
                       /\ UNCHANGED wkUpstream
                  ELSE CASE route = "datasets" ->
                              SendUpstream(<<"SHOW TABLES">>) /\ UNCHANGED wkResponses
                         [] route = "schema" ->
                              LET datasetId == decodeURIComponent(SecondSegment(path))
                              IN IF datasetId.ok
                                 THEN SendUpstream(<<"SELECT * FROM ", datasetId.value, " LIMIT 1">>)
                                      /\ UNCHANGED wkResponses
                                 ELSE WorkerReturn(JsonResponse(500, "Request failed"))
                                      /\ UNCHANGED wkUpstream
                         [] route = "query" ->
                              wkPc' = "body" /\ UNCHANGED <<wkUpstream, wkResponses>>
                         [] OTHER ->
                              WorkerReturn(JsonResponse(404, "Not found"))
                              /\ UNCHANGED wkUpstream
    /\ UNCHANGED <<wkVariant, wkRequest, substVars, apiVars, cfgVars, lfVars, rowVars,
                   dialogVars, treeVars, counterVars>>

\* env.ASSETS.fetch(request) answers or fails
AssetsAnswer(ok) ==
    /\ wkPc = "assets"
    /\ WorkerReturn(IF ok THEN AssetsResponse
                    ELSE IF wkVariant = "worker" THEN PlainResponse(404, "Not Found")
                    ELSE Rejected)
    /\ UNCHANGED <<wkVariant, wkRequest, wkAssets, wkUpstream, substVars, apiVars,
                   cfgVars, lfVars, rowVars, dialogVars, treeVars, counterVars>>

\* await request.json() is over: sql = substituteParams(body.query, body.params)
BodyRead ==
    /\ wkPc = "body"
    /\ IF wkRequest.body.ok /\ ~IsNullish(wkRequest.body.value)
       THEN SendUpstream(substituteParams(wkRequest.body.value.query,
                                          wkRequest.body.value.params))
            /\ UNCHANGED wkResponses
       ELSE WorkerReturn(JsonResponse(500, "Request failed")) /\ UNCHANGED wkUpstream
    /\ UNCHANGED <<wkVariant, wkRequest, wkAssets, substVars, apiVars, cfgVars, lfVars,
                   rowVars, dialogVars, treeVars, counterVars>>

\* the Cloudflare API answers and the handler runs to its return
UpstreamAnswer(answer) ==
    /\ wkPc = "upstream"
    /\ wkUpstream' = [wkUpstream EXCEPT ![Len(wkUpstream)].answer = answer]
    /\ wkResponses' = Append(wkResponses,
            CASE answer = "notok" -> JsonResponse(502, "Query failed")
              [] answer = "ok" -> JsonResponse(200, "")
              [] OTHER -> JsonResponse(500, "Request failed"))
    /\ wkPc' = "done"
    /\ UNCHANGED <<wkVariant, wkRequest, wkAssets, substVars, apiVars, cfgVars, lfVars,
                   rowVars, dialogVars, treeVars, counterVars>>

--------------------------------------------------------------------------
(* The browser ApiClient of the Analytics Engine (localflare.ts)           *)

NoCredentialsMessage ==
    "No API credentials found. Please configure your Cloudflare API credentials in Settings."

\* the field f of the value v: undefined when v is no object or has no f
Prop(v, f) ==
    IF v.tag = "object" /\ f \in DOMAIN v.fields THEN v.fields[f] ELSE Undefined

\* ToBoolean
JsTruthy(v) ==
    CASE v.tag \in {"undefined", "null"} -> FALSE
      [] v.tag = "string" -> v.value # <<>>
      [] v.tag = "number" -> v.value # 0
      [] OTHER -> TRUE

\* the objects a stored text can hold: each field absent, null, empty or set
CredentialObjects ==
    { Obj(f) : f \in UNION { [D -> {Null, Str(<<>>), Str(<<"v">>), Str(<<"w">>)}] :
                             D \in SUBSET {"accountId", "apiToken"} } }

\* localStorage.getItem(STORAGE_KEYS.apiCredentials): it throws, returns
\* null, or returns a text; parsed is what JSON.parse makes of the text
StoredItems ==
    { [get |-> "throws"], [get |-> "null"],
      [get |-> "text", text |-> <<>>, parsed |-> Failed],
      [get |-> "text", text |-> <<"{">>, parsed |-> Failed],
      [get |-> "text", text |-> <<"null">>, parsed |-> [ok |-> TRUE, value |-> Null]],
      [get |-> "text", text |-> <<"5">>, parsed |-> [ok |-> TRUE, value |-> Number(5)]] }
    \cup { [get |-> "text", text |-> <<"{", "...", "}">>, parsed |-> [ok |-> TRUE, value |-> o]] :
             o \in CredentialObjects }

getStoredCredentials ==
    IF acStored.get = "text" /\ acStored.text # <<>> /\ acStored.parsed.ok
    THEN acStored.parsed.value
    ELSE Null

\* !(!credentials?.accountId || !credentials?.apiToken)
HasCredentials_AccountOnly(credentials) == JsTruthy(Prop(credentials, "accountId"))

HasCredentials(credentials) ==
    JsTruthy(Prop(credentials, "accountId")) /\ JsTruthy(Prop(credentials, "apiToken"))

ApiReturned(op, value) == [op |-> op, outcome |-> "value", value |-> value]

ApiThrew(op, message) == [op |-> op, outcome |-> "error", value |-> message]

ApiOps == {"getDatasets", "getDatasetSchema", "executeQuery", "healthCheck"}

\* the SQL statement of a call
SqlOf(op) ==
    CASE op = "getDatasets" -> <<"SHOW TABLES">>
      [] op = "getDatasetSchema" -> <<"SELECT * FROM ", "ds1", " LIMIT 1">>
      [] OTHER -> substituteParams(<<"{{", "a", "}}">>,
                                   List(<<[key |-> "a", value |-> Number(7)]>>))

\* the answers to executeSql: fetch fails, a status that is not ok, ok with
\* a body that is not JSON, ok with a result
SqlAnswers == {"throws", "notok", "ok_notjson", "ok"}

\* the credentials in localStorage change between two calls
SetStored(item) ==
    /\ acCall = Idle
    /\ acStored # item
    /\ acStored' = item
    /\ acResult' = Undefined
    /\ acHttp' = <<>>
    /\ UNCHANGED <<acCall, substVars, workerVars, cfgVars, lfVars, rowVars, dialogVars,
                   treeVars, counterVars>>

\* a method of apiClient is called and runs to its first await or its end
ApiCall(op) ==
    /\ acCall = Idle
    /\ acStored # Null
    /\ LET credentials == getStoredCredentials
       IN IF op = "healthCheck"
          THEN /\ acResult' = ApiReturned(op, IF HasCredentials(credentials)
                                              THEN "ok" ELSE "no_credentials")
               /\ acHttp' = <<>>
               /\ UNCHANGED acCall
          ELSE IF ~HasCredentials(credentials)
          THEN /\ acResult' = ApiThrew(op, NoCredentialsMessage)
               /\ acHttp' = <<>>
               /\ UNCHANGED acCall
          ELSE /\ acHttp' = <<[accountId |-> Prop(credentials, "accountId"),
                               apiToken |-> Prop(credentials, "apiToken"),
                               sql |-> SqlOf(op)]>>
               /\ acCall' = [pc |-> "fetch", op |-> op]
               /\ acResult' = Undefined
    /\ UNCHANGED <<acStored, substVars, workerVars, cfgVars, lfVars, rowVars, dialogVars,
                   treeVars, counterVars>>

\* executeSql is over and the method returns or throws
ApiAnswer(answer) ==
    /\ acCall # Idle
    /\ acResult' = IF answer = "ok" THEN ApiReturned(acCall.op, "result")
                   ELSE IF acCall.op = "getDatasets" THEN ApiReturned(acCall.op, "[]")
                   ELSE ApiThrew(acCall.op, "request failed")
    /\ acCall' = Idle
    /\ UNCHANGED <<acStored, acHttp, substVars, workerVars, cfgVars, lfVars, rowVars,
                   dialogVars, treeVars, counterVars>>

--------------------------------------------------------------------------
(* Calls of the configuration functions                                    *)

NoCall == [op |-> "none"]

FindCall(directory) ==
    /\ cfgLast' = [op |-> "findWranglerConfig", arg |-> directory,
                   result |-> findWranglerConfig(directory)]
    /\ UNCHANGED <<fs, cfgInput, lfVars, rowVars, dialogVars, treeVars, counterVars, webVars>>

ParseCall(configPath) ==
    /\ cfgLast' = [op |-> "parseWranglerConfig", arg |-> configPath,
                   result |-> parseWranglerConfig(configPath)]
    /\ UNCHANGED <<fs, cfgInput, lfVars, rowVars, dialogVars, treeVars, counterVars, webVars>>

DiscoverCall ==
    /\ cfgLast.op # "discoverBindings"
    /\ cfgLast' = [op |-> "discoverBindings", arg |-> cfgInput,
                   result |-> discoverBindings(cfgInput)]
    /\ UNCHANGED <<fs, cfgInput, lfVars, rowVars, dialogVars, treeVars, counterVars, webVars>>

\* the values a list-valued section of a configuration takes
SectionValues(item) == {Undefined, Null, List(<<>>), List(<<item>>)}

\* the configurations discoverBindings is applied to
ConfigInputs ==
    { [d1_databases |-> d1, kv_namespaces |-> kv, r2_buckets |-> r2,
       durable_objects |-> dobj, queues |-> q, vars |-> v, main |-> Undefined] :
        d1 \in SectionValues([binding |-> "DB", database_id |-> "d1"]),
        kv \in {Undefined, List(<<[binding |-> "CACHE", id |-> "k1"]>>)},
        r2 \in {Undefined, List(<<>>), List(<<[binding |-> "STORAGE", bucket_name |-> "b1"]>>)},
        dobj \in {Undefined, Null} \cup
                 {Obj([bindings |-> b]) :
                    b \in SectionValues([name |-> "COUNTER", class_name |-> "Counter"])},
        q \in {Undefined} \cup
              {Obj([producers |-> pr, consumers |-> co]) :
                 pr \in {Undefined, List(<<[binding |-> "TASKS", queue |-> "q1"]>>)},
                 co \in {Undefined, Null, List(<<[queue |-> "q1"]>>)}},
        v \in {Undefined, Map(<<>>), Map(<<<<"ENVIRONMENT", "dev">>>>)} }

--------------------------------------------------------------------------
(* class LocalFlare                                                        *)

NotRunningMessage == "LocalFlare is not running. Call start() first."

AccessorOps ==
    {"getD1Database", "getKVNamespace", "getR2Bucket",
     "getDurableObjectNamespace", "getQueueProducer", "getAllBindings"}

BindingNames == {"DB", "MISSING"}

\* ensureRunning testing this.config instead of this.mf
EnsureRunningThrows_ChecksConfig == config = Null

\* ensureRunning throws
EnsureRunningThrows == mf = Null

Returned(op) == [op |-> op, outcome |-> "value"]
Threw(op, message) == [op |-> op, outcome |-> "error", message |-> message]

\* start(), up to its first await: parse the configuration, discover the
\* bindings, hand the entry point to the bundler
StartBegin ==
    /\ startPc = "idle"
    /\ LET parsed == parseWranglerConfig(options.configPath)
       IN IF parsed.outcome = "error"
          THEN /\ lfLast' = Threw("start", parsed.message)
               /\ lfSeq' = 1 - lfSeq
               /\ UNCHANGED <<config, bindings, startPc>>
          ELSE /\ config' = [tag |-> "config", value |-> parsed.value]
               /\ bindings' = [tag |-> "bindings", value |-> discoverBindings(parsed.value)]
               /\ startPc' = "building"
               /\ UNCHANGED <<lfLast, lfSeq>>
    /\ UNCHANGED <<options, mf, stopPc, cfgVars, rowVars, dialogVars, treeVars, counterVars, webVars>>

\* start(), from the bundler's answer to the await of the runtime's ready
StartBuilt(build) ==
    /\ startPc = "building"
    /\ IF build = "script"
       THEN /\ mf' = [tag |-> "miniflare", bindings |-> bindings.value]
            /\ startPc' = "ready_wait"
            /\ UNCHANGED <<lfLast, lfSeq>>
       ELSE /\ startPc' = "idle"
            /\ lfLast' = Threw("start", IF build = "no_output"
                                        THEN "Failed to compile worker script"
                                        ELSE build)
            /\ lfSeq' = 1 - lfSeq
            /\ UNCHANGED mf
    /\ UNCHANGED <<options, config, bindings, stopPc, cfgVars, rowVars, dialogVars, treeVars, counterVars, webVars>>

\* start(), after the await of the runtime's ready
StartReady(ok) ==
    /\ startPc = "ready_wait"
    /\ startPc' = "idle"
    /\ lfLast' = IF ok THEN Returned("start") ELSE Threw("start", "ready rejected")
    /\ lfSeq' = 1 - lfSeq
    /\ UNCHANGED <<options, mf, config, bindings, stopPc, cfgVars, rowVars, dialogVars, treeVars, counterVars, webVars>>

\* stop(), up to its await of dispose
StopBegin ==
    /\ stopPc = "idle"
    /\ IF mf # Null
       THEN /\ stopPc' = "disposing"
            /\ UNCHANGED <<lfLast, lfSeq>>
       ELSE /\ lfLast' = Returned("stop")
            /\ lfSeq' = 1 - lfSeq
            /\ UNCHANGED stopPc
    /\ UNCHANGED <<options, mf, config, bindings, startPc, cfgVars, rowVars, dialogVars, treeVars, counterVars, webVars>>

\* stop(), after the await of dispose
StopDisposed(ok) ==
    /\ stopPc = "disposing"
    /\ stopPc' = "idle"
    /\ IF ok
       THEN /\ mf' = Null
            /\ lfLast' = Returned("stop")
       ELSE /\ lfLast' = Threw("stop", "dispose rejected")
            /\ UNCHANGED mf
    /\ lfSeq' = 1 - lfSeq
    /\ UNCHANGED <<options, config, bindings, startPc, cfgVars, rowVars, dialogVars, treeVars, counterVars, webVars>>

\* getD1Database, getKVNamespace, getR2Bucket, getDurableObjectNamespace,
\* getQueueProducer (with a binding name) and getAllBindings
Accessor(op, bindingName) ==
    /\ lfLast' =
         IF EnsureRunningThrows
         THEN Threw(op, NotRunningMessage)
         ELSE IF mf = Null
         THEN Threw(op, "TypeError: Cannot read properties of null")
         ELSE [op |-> op, outcome |-> "value",
               value |-> [from |-> mf, name |-> bindingName]]
    /\ lfSeq' = 1 - lfSeq
    /\ UNCHANGED <<options, mf, config, bindings, startPc, stopPc, cfgVars, rowVars, dialogVars, treeVars, counterVars, webVars>>

--------------------------------------------------------------------------
(* Specifications                                                          *)

\* every set of existing files, all with one content
FileSystems ==
    { [p \in Paths |-> IF p \in E THEN c ELSE NoFile] :
        E \in SUBSET Paths, c \in Contents }

RowIdle ==
    /\ ddSchema = <<>>
    /\ ddFk = Undefined
    /\ ddRow = <<>>
    /\ ddIdx = 1

DialogIdle ==
    /\ rowCount = 10
    /\ isGenerating = FALSE
    /\ pending = <<>>
    /\ changeSeq = 0
    /\ generateCalls = <<>>

TreeIdle ==
    /\ ftObjects = <<>>
    /\ ftHide = TRUE
    /\ ftNodes = <<>>
    /\ ftKids = (0 :> <<>>)
    /\ ftI = 1
    /\ ftK = 1
    /\ ftSorted = FALSE

CounterIdle ==
    /\ ctStorage = [id \in ObjectIds |-> Undefined]
    /\ ctAlive = [id \in ObjectIds |-> FALSE]
    /\ ctValue = [id \in ObjectIds |-> 0]
    /\ ctReq = [id \in ObjectIds |-> Idle]
    /\ ctResp = [name \in CounterNames |-> NoResponse]
    /\ ctNet = [name \in CounterNames |-> 0]
    /\ ctFlight = <<>>

SubstIdle ==
    /\ spQuery = <<>>
    /\ spParams = Undefined
    /\ spResult = Undefined

WorkerIdle ==
    /\ wkVariant = "worker"
    /\ wkRequest = Null
    /\ wkPc = "done"
    /\ wkAssets = <<>>
    /\ wkUpstream = <<>>
    /\ wkResponses = <<>>

ApiIdle ==
    /\ acStored = Null
    /\ acCall = Idle
    /\ acHttp = <<>>
    /\ acResult = Undefined

WebIdle ==
    /\ SubstIdle
    /\ WorkerIdle
    /\ ApiIdle

LocalFlareIdle ==
    /\ RowIdle
    /\ DialogIdle
    /\ TreeIdle
    /\ CounterIdle
    /\ WebIdle
    /\ options = [configPath |-> <<"proj", "/", "wrangler", ".", "toml">>]
    /\ mf = Null
    /\ config = Null
    /\ bindings = Null
    /\ startPc = "idle"
    /\ stopPc = "idle"
    /\ lfLast = NoCall
    /\ lfSeq = 0

InitConfig ==
    /\ fs \in FileSystems
    /\ cfgInput = EmptyConfig
    /\ cfgLast = NoCall
    /\ LocalFlareIdle

NextConfig ==
    \/ \E d \in Directories : FindCall(d)
    \/ \E p \in Paths : ParseCall(p)

SpecConfig == InitConfig /\ [][NextConfig]_vars

InitDiscover ==
    /\ fs = [p \in Paths |-> NoFile]
    /\ cfgInput \in ConfigInputs
    /\ cfgLast = NoCall
    /\ LocalFlareIdle

NextDiscover == DiscoverCall

SpecDiscover == InitDiscover /\ [][NextDiscover]_vars

\* new LocalFlare({configPath}) in a directory where at most the
\* configuration file exists
InitLocalFlare ==
    /\ options \in [configPath : Paths]
    /\ \E c \in Contents \cup {NoFile} :
         fs = [p \in Paths |-> IF p = options.configPath THEN c ELSE NoFile]
    /\ cfgInput = EmptyConfig
    /\ cfgLast = NoCall
    /\ mf = Null
    /\ config = Null
    /\ bindings = Null
    /\ startPc = "idle"
    /\ stopPc = "idle"
    /\ lfLast = NoCall
    /\ lfSeq = 0
    /\ RowIdle
    /\ DialogIdle
    /\ TreeIdle
    /\ CounterIdle
    /\ WebIdle

NextLocalFlare ==
    \/ StartBegin
    \/ \E build \in {"script", "no_output", "build_error", "constructor_error"} : StartBuilt(build)
    \/ \E ok \in BOOLEAN : StartReady(ok)
    \/ StopBegin
    \/ \E ok \in BOOLEAN : StopDisposed(ok)
    \/ \E op \in AccessorOps \ {"getAllBindings"}, n \in BindingNames : Accessor(op, n)
    \/ Accessor("getAllBindings", "")

SpecLocalFlare == InitLocalFlare /\ [][NextLocalFlare]_vars

ConfigIdle ==
    /\ fs = [p \in Paths |-> NoFile]
    /\ cfgInput = EmptyConfig
    /\ cfgLast = NoCall

\* generateDummyRow(schema, foreignKeyValues)
InitDummyRow ==
    /\ ddSchema \in Schemas
    /\ ddFk \in ForeignKeyInputs
    /\ ddRow = <<>>
    /\ ddIdx = 1
    /\ DialogIdle
    /\ TreeIdle
    /\ CounterIdle
    /\ WebIdle
    /\ ConfigIdle
    /\ options = [configPath |-> <<"proj", "/", "wrangler", ".", "toml">>]
    /\ mf = Null /\ config = Null /\ bindings = Null
    /\ startPc = "idle" /\ stopPc = "idle" /\ lfLast = NoCall /\ lfSeq = 0

NextDummyRow == RowStep

SpecDummyRow == InitDummyRow /\ [][NextDummyRow]_vars

\* generateValueForColumn(column), called by generateDummyRow for the one
\* column of a schema, without foreignKeyValues
InitColumnValue ==
    /\ ddSchema \in { <<column>> : column \in ValueColumns }
    /\ ddFk = Undefined
    /\ ddRow = <<>>
    /\ ddIdx = 1
    /\ DialogIdle
    /\ TreeIdle
    /\ CounterIdle
    /\ WebIdle
    /\ ConfigIdle
    /\ options = [configPath |-> <<"proj", "/", "wrangler", ".", "toml">>]
    /\ mf = Null /\ config = Null /\ bindings = Null
    /\ startPc = "idle" /\ stopPc = "idle" /\ lfLast = NoCall /\ lfSeq = 0

NextColumnValue == RowStep

SpecColumnValue == InitColumnValue /\ [][NextColumnValue]_vars

\* the dialog after its first render
InitDialog ==
    /\ DialogIdle
    /\ ConfigIdle
    /\ LocalFlareIdle

NextDialog ==
    \/ \E c \in InputChars : KeyChar(c)
    \/ \E c \in InputChars : KeyCharAtStart(c)
    \/ ClearInput
    \/ HandleGenerate
    \/ GenerationDone

SpecDialog == InitDialog /\ [][NextDialog]_vars

\* buildFileTree(objects, hideKeepFiles)
InitTree ==
    /\ ftObjects \in ObjectLists
    /\ ftHide \in BOOLEAN
    /\ ftNodes = <<>>
    /\ ftKids = (0 :> <<>>)
    /\ ftI = 1
    /\ ftK = 1
    /\ ftSorted = FALSE
    /\ ConfigIdle
    /\ options = [configPath |-> <<"proj", "/", "wrangler", ".", "toml">>]
    /\ mf = Null /\ config = Null /\ bindings = Null
    /\ startPc = "idle" /\ stopPc = "idle" /\ lfLast = NoCall /\ lfSeq = 0
    /\ RowIdle
    /\ DialogIdle
    /\ CounterIdle
    /\ WebIdle

NextTree ==
    \/ InsertObject
    \/ KeepStep
    \/ SortAndReturn

SpecTree == InitTree /\ [][NextTree]_vars

\* the worker with its Counter objects, nothing stored yet
InitCounter ==
    /\ CounterIdle
    /\ WebIdle
    /\ ConfigIdle
    /\ options = [configPath |-> <<"proj", "/", "wrangler", ".", "toml">>]
    /\ mf = Null /\ config = Null /\ bindings = Null
    /\ startPc = "idle" /\ stopPc = "idle" /\ lfLast = NoCall /\ lfSeq = 0
    /\ RowIdle
    /\ DialogIdle
    /\ TreeIdle

NextCounter ==
    \/ \E name \in CounterNames, pathname \in Pathnames : Deliver(name, pathname)
    \/ \E id \in ObjectIds : Load(id)
    \/ \E id \in ObjectIds : Switch(id)
    \/ \E id \in ObjectIds : Respond(id)
    \/ \E id \in ObjectIds : Evict(id)

SpecCounter == InitCounter /\ [][NextCounter]_vars

\* the object of counter A with a value stored by earlier requests; ctNet
\* holds the net of those requests
InitCounterFlight ==
    /\ \E initial \in InitialValues :
          /\ ctStorage = [id \in ObjectIds |-> IF id = idFromName("A") THEN initial ELSE Undefined]
          /\ ctNet = [name \in CounterNames |->
                        IF name = "A" THEN Coalesce(initial, Number(0)).value ELSE 0]
    /\ ctAlive = [id \in ObjectIds |-> FALSE]
    /\ ctValue = [id \in ObjectIds |-> 0]
    /\ ctReq = [id \in ObjectIds |-> Idle]
    /\ ctResp = [name \in CounterNames |-> NoResponse]
    /\ ctFlight = <<>>
    /\ WebIdle
    /\ ConfigIdle
    /\ options = [configPath |-> <<"proj", "/", "wrangler", ".", "toml">>]
    /\ mf = Null /\ config = Null /\ bindings = Null
    /\ startPc = "idle" /\ stopPc = "idle" /\ lfLast = NoCall /\ lfSeq = 0
    /\ RowIdle
    /\ DialogIdle
    /\ TreeIdle

NextCounterFlight ==
    \/ \E pathname \in UpdatePathnames : FlightSend(pathname)
    \/ \E i \in 1..Len(ctFlight) : FlightStart(i)
    \/ \E i \in 1..Len(ctFlight) : FlightGetDone(i)
    \/ \E i \in 1..Len(ctFlight) : FlightPutDone(i)

SpecCounterFlight == InitCounterFlight /\ [][NextCounterFlight]_vars

\* substituteParams(query, params)
InitSubst ==
    /\ spQuery \in Queries
    /\ spParams \in ParamInputs
    /\ spResult = Undefined
    /\ WorkerIdle
    /\ ApiIdle
    /\ ConfigIdle
    /\ options = [configPath |-> <<"proj", "/", "wrangler", ".", "toml">>]
    /\ mf = Null /\ config = Null /\ bindings = Null
    /\ startPc = "idle" /\ stopPc = "idle" /\ lfLast = NoCall /\ lfSeq = 0
    /\ RowIdle
    /\ DialogIdle
    /\ TreeIdle
    /\ ctStorage = [id \in ObjectIds |-> Undefined]
    /\ ctAlive = [id \in ObjectIds |-> FALSE]
    /\ ctValue = [id \in ObjectIds |-> 0]
    /\ ctReq = [id \in ObjectIds |-> Idle]
    /\ ctResp = [name \in CounterNames |-> NoResponse]
    /\ ctNet = [name \in CounterNames |-> 0]
    /\ ctFlight = <<>>

NextSubst == Substitute

SpecSubst == InitSubst /\ [][NextSubst]_vars

\* one request to the dashboard worker
InitWorker ==
    /\ wkVariant \in WorkerVariants
    /\ wkRequest \in Requests
    /\ wkPc = "start"
    /\ wkAssets = <<>>
    /\ wkUpstream = <<>>
    /\ wkResponses = <<>>
    /\ SubstIdle
    /\ ApiIdle
    /\ ConfigIdle
    /\ options = [configPath |-> <<"proj", "/", "wrangler", ".", "toml">>]
    /\ mf = Null /\ config = Null /\ bindings = Null
    /\ startPc = "idle" /\ stopPc = "idle" /\ lfLast = NoCall /\ lfSeq = 0
    /\ RowIdle
    /\ DialogIdle
    /\ TreeIdle
    /\ ctStorage = [id \in ObjectIds |-> Undefined]
    /\ ctAlive = [id \in ObjectIds |-> FALSE]
    /\ ctValue = [id \in ObjectIds |-> 0]
    /\ ctReq = [id \in ObjectIds |-> Idle]
    /\ ctResp = [name \in CounterNames |-> NoResponse]
    /\ ctNet = [name \in CounterNames |-> 0]
    /\ ctFlight = <<>>

NextWorker ==
    \/ WorkerFetch
    \/ \E ok \in BOOLEAN : AssetsAnswer(ok)
    \/ BodyRead
    \/ \E answer \in UpstreamAnswers : UpstreamAnswer(answer)

SpecWorker == InitWorker /\ [][NextWorker]_vars

\* the ApiClient in a browser with some state of localStorage
InitApi ==
    /\ acStored \in StoredItems
    /\ acCall = Idle
    /\ acHttp = <<>>
    /\ acResult = Undefined
    /\ SubstIdle
    /\ WorkerIdle
    /\ ConfigIdle
    /\ options = [configPath |-> <<"proj", "/", "wrangler", ".", "toml">>]
    /\ mf = Null /\ config = Null /\ bindings = Null
    /\ startPc = "idle" /\ stopPc = "idle" /\ lfLast = NoCall /\ lfSeq = 0
    /\ RowIdle
    /\ DialogIdle
    /\ TreeIdle
    /\ ctStorage = [id \in ObjectIds |-> Undefined]
    /\ ctAlive = [id \in ObjectIds |-> FALSE]
    /\ ctValue = [id \in ObjectIds |-> 0]
    /\ ctReq = [id \in ObjectIds |-> Idle]
    /\ ctResp = [name \in CounterNames |-> NoResponse]
    /\ ctNet = [name \in CounterNames |-> 0]
    /\ ctFlight = <<>>

NextApi ==
    \/ \E item \in StoredItems : SetStored(item)
    \/ \E op \in ApiOps : ApiCall(op)
    \/ \E answer \in SqlAnswers : ApiAnswer(answer)

SpecApi == InitApi /\ [][NextApi]_vars

--------------------------------------------------------------------------
(* Claims                                                                  *)

\* C1: whenever the LocalFlare object holds no runtime instance (this.mf is
\* null), a call of any of the six binding accessors fails with the error
\* 'LocalFlare is not running. Call start() first.' and changes no state of
\* the object.
C1_AccessorsFailWhenNotRunning ==
    [][ (lfSeq' # lfSeq /\ lfLast'.op \in AccessorOps /\ mf = Null)
          => /\ lfLast' = Threw(lfLast'.op, NotRunningMessage)
             /\ UNCHANGED <<options, mf, config, bindings, startPc, stopPc, fs>> ]_vars

\* an accessor has failed after a start() that got as far as the
\* configuration and ended without a runtime instance, or after stop()
C1_Witness ==
    /\ mf = Null
    /\ config # Null
    /\ startPc = "idle"
    /\ stopPc = "idle"
    /\ lfLast = Threw("getR2Bucket", NotRunningMessage)

\* C6: findWranglerConfig(directory) returns wrangler.toml if it exists,
\* else wrangler.json if it exists, else wrangler.jsonc if it exists, and
\* null when none of the three exists.
C6_FindPriority ==
    cfgLast.op = "findWranglerConfig" =>
        LET d == cfgLast.arg
            toml == d \o <<"/", "wrangler", ".", "toml">>
            json == d \o <<"/", "wrangler", ".", "json">>
            jsonc == d \o <<"/", "wrangler", ".", "jsonc">>
        IN cfgLast.result =
             IF existsSync(toml) THEN PathValue(toml)
             ELSE IF existsSync(json) THEN PathValue(json)
             ELSE IF existsSync(jsonc) THEN PathValue(jsonc)
             ELSE Null

\* wrangler.json was found although wrangler.jsonc exists as well
C6_Witness ==
    /\ cfgLast.op = "findWranglerConfig"
    /\ cfgLast.result = PathValue(<<"proj", "/", "wrangler", ".", "json">>)
    /\ existsSync(<<"proj", "/", "wrangler", ".", "jsonc">>)
    /\ ~existsSync(<<"proj", "/", "wrangler", ".", "toml">>)

\* the file name of path ends in "." and a word that lower-cases to w, after
\* at least one other character
C7_HasExtension(path, w) ==
    LET base == Basename(path)
    IN /\ Len(base) > 2
       /\ base[Len(base) - 1] = "."
       /\ LowerWord(base[Len(base)]) = w

\* the first character of text that is not white space is "{"
C7_LooksLikeJson(text) ==
    \E i \in 1..Len(text) :
        /\ text[i] = "{"
        /\ \A j \in 1..(i - 1) : text[j] \in WhiteSpace

C7_ExpectedParser(path, content) ==
    IF C7_HasExtension(path, "toml") THEN "toml"
    ELSE IF C7_HasExtension(path, "json") THEN "json"
    ELSE IF C7_HasExtension(path, "jsonc") THEN "jsonc"
    ELSE IF C7_LooksLikeJson(content.text) THEN "jsonc"
    ELSE "toml"

\* C7: parseWranglerConfig(configPath) fails with 'Wrangler config not found
\* at: <path>' when the file does not exist, reading nothing; for an existing
\* file the parser is chosen by the lower-cased extension, and for any other
\* extension by content (JSONC when the trimmed content starts with '{',
\* otherwise TOML); the result is that parser's configuration, and a parser
\* failure is raised, never turned into a configuration.
C7_ParseWranglerConfig ==
    cfgLast.op = "parseWranglerConfig" =>
        LET path == cfgLast.arg
            res == cfgLast.result
        IN IF fs[path] = NoFile
           THEN /\ res.outcome = "error"
                /\ res.message = NotFoundMessage(path)
                /\ res.reads = <<>>
           ELSE LET parser == C7_ExpectedParser(path, fs[path])
                    parsed == fs[path][parser]
                IN /\ res.parser = parser
                   /\ res.reads = <<path>>
                   /\ IF parsed.ok
                      THEN res.outcome = "value" /\ res.value = parsed.config
                      ELSE res.outcome = "error" /\ res.message # NotFoundMessage(path)

\* a file with an upper-case extension went to the TOML parser, which
\* rejected its JSON-looking content, and the failure was raised
C7_Witness ==
    /\ cfgLast.op = "parseWranglerConfig"
    /\ cfgLast.arg = <<"proj", "/", "wrangler", ".", "TOML">>
    /\ existsSync(cfgLast.arg)
    /\ C7_LooksLikeJson(fs[cfgLast.arg].text)
    /\ cfgLast.result.parser = "toml"
    /\ cfgLast.result.outcome = "error"

\* the section when it holds a list (a map), else the empty list (map)
C8_SectionOr(section, empty) ==
    IF section.tag = empty.tag THEN section ELSE empty

C8_Field(object, f) ==
    IF object.tag = "object" THEN object.fields[f] ELSE Undefined

\* C8: for every configuration, discoverBindings returns d1, kv, r2,
\* durableObjects, queues.producers and queues.consumers as lists and vars
\* as a map, each equal to the configuration's section when that section is
\* present and empty otherwise.
C8_DiscoverBindingsTotal ==
    cfgLast.op = "discoverBindings" =>
        LET cfg == cfgLast.arg
            b == cfgLast.result
        IN /\ cfg = cfgInput
           /\ \A l \in {b.d1, b.kv, b.r2, b.durableObjects,
                        b.queues.producers, b.queues.consumers} : l.tag = "list"
           /\ b.vars.tag = "map"
           /\ b.d1 = C8_SectionOr(cfg.d1_databases, List(<<>>))
           /\ b.kv = C8_SectionOr(cfg.kv_namespaces, List(<<>>))
           /\ b.r2 = C8_SectionOr(cfg.r2_buckets, List(<<>>))
           /\ b.durableObjects =
                C8_SectionOr(C8_Field(cfg.durable_objects, "bindings"), List(<<>>))
           /\ b.queues.producers =
                C8_SectionOr(C8_Field(cfg.queues, "producers"), List(<<>>))
           /\ b.queues.consumers =
                C8_SectionOr(C8_Field(cfg.queues, "consumers"), List(<<>>))
           /\ b.vars = C8_SectionOr(cfg.vars, Map(<<>>))

\* discoverBindings was applied to a configuration with no durable_objects
\* section and no vars, and with queue producers but no consumers
C8_Witness ==
    /\ cfgLast.op = "discoverBindings"
    /\ cfgLast.arg.durable_objects = Undefined
    /\ cfgLast.arg.vars = Undefined
    /\ cfgLast.arg.d1_databases = Undefined
    /\ cfgLast.arg.queues.tag = "object"
    /\ cfgLast.arg.queues.fields.consumers = Undefined
    /\ cfgLast.result.queues.producers.items # <<>>
    /\ cfgLast.result.durableObjects = List(<<>>)

\* C2: the row returned by generateDummyRow has no entry for a column with
\* pk = 1 and declared type INTEGER (case-insensitive), for every schema and
\* every foreignKeyValues argument.
C2_PrimaryKeySkipped ==
    RowReturned =>
        \A i \in 1..Len(ddSchema) :
            (ddSchema[i].pk = 1 /\ ToUpperCase(ddSchema[i].type) = T_INTEGER)
                => ddSchema[i].name \notin DOMAIN ddRow

RECURSIVE C3_Pow10(_)
C3_Pow10(n) == IF n = 0 THEN 1 ELSE 10 * C3_Pow10(n - 1)

\* the text denotes a number that is at least 1 and at most 100: between
\* white space, digits (the mantissa m) and optionally "e", an optional "-"
\* and digits (the exponent x), with 1 <= m * 10^x <= 100
C3_NumberInRange(text) ==
    LET body == Trim(text)
        es == {i \in 1..Len(body) : body[i] = "e"}
        at == IF es = {} THEN Len(body) + 1 ELSE CHOOSE i \in es : TRUE
        mant == SubSeq(body, 1, at - 1)
        expo == SubSeq(body, at + 1, Len(body))
        expoNeg == Len(expo) > 0 /\ expo[1] = "-"
        expoDigits == IF expoNeg THEN SubSeq(expo, 2, Len(expo)) ELSE expo
        m == DigitsValue(mant)
        x == DigitsValue(expoDigits)
    IN /\ Cardinality(es) <= 1
       /\ mant # <<>> /\ \A i \in 1..Len(mant) : IsDigit(mant[i])
       /\ \A i \in 1..Len(expoDigits) : IsDigit(expoDigits[i])
       /\ es # {} => expoDigits # <<>>
       /\ IF expoNeg
          THEN x <= Len(mant) /\ m >= C3_Pow10(x) /\ m <= 100 * C3_Pow10(x)
          ELSE x <= 2 /\ m * C3_Pow10(x) >= 1 /\ m * C3_Pow10(x) <= 100

\* C3 as stated: rowCount is always an integer in 1..100, onGenerate is only
\* called with such a count, and a change whose input is not a number, is
\* below 1 or is above 100 leaves rowCount unchanged.
C3_RowCountAsStated ==
    /\ [](rowCount \in 1..100 /\ \A i \in 1..Len(generateCalls) : generateCalls[i] \in 1..100)
    /\ [][ (changeSeq' # changeSeq /\ ~C3_NumberInRange(InputValue(pending')))
             => rowCount' = rowCount ]_vars

\* the integer the text begins with, if any: white space, an optional sign
\* and the longest run of decimal digits, which is not empty
C3_LeadingIntegers(text) ==
    { (IF text[a + 1] = "-" THEN -1 ELSE 1)
        * DigitsValue(SubSeq(text, IF text[a + 1] \in {"-", "+"} THEN a + 2 ELSE a + 1, b)) :
      <<a, b>> \in
        { ab \in (0..(Len(text) - 1)) \X (1..Len(text)) :
            LET from == IF text[ab[1] + 1] \in {"-", "+"} THEN ab[1] + 2 ELSE ab[1] + 1
            IN /\ \A i \in 1..ab[1] : text[i] \in WhiteSpace
               /\ text[ab[1] + 1] \notin WhiteSpace
               /\ from <= ab[2]
               /\ \A i \in from..ab[2] : IsDigit(text[i])
               /\ ab[2] = Len(text) \/ ~IsDigit(text[ab[2] + 1]) } }

\* C3, amended: rowCount is always an integer in 1..100 (initially 10) and
\* onGenerate is only called with such a count; a change event sets rowCount
\* to the integer its input value begins with when that integer is in
\* 1..100, and leaves it unchanged otherwise.
C3_RowCountInRange ==
    /\ [](rowCount \in 1..100 /\ \A i \in 1..Len(generateCalls) : generateCalls[i] \in 1..100)
    /\ [][ changeSeq' # changeSeq =>
             IF C3_LeadingIntegers(InputValue(pending')) \cap (1..100) # {}
             THEN rowCount' \in C3_LeadingIntegers(InputValue(pending'))
             ELSE rowCount' = rowCount ]_vars

\* 100 was entered and generated, then the input was emptied and 999 typed:
\* the count stays at its last accepted value, 99
C3_Witness ==
    /\ generateCalls = <<100>>
    /\ pending = <<"9", "9", "9">>
    /\ rowCount = 99

\* C4: in the result of buildFileTree every children list, at every depth, has
\* its folders before its files, and two siblings of the same type in
\* ascending order of name.
C4_SiblingsSorted ==
    ftSorted =>
        \A k \in DOMAIN ftKids :
            \A i, j \in 1..Len(ftKids[k]) :
                i < j =>
                    LET a == ftNodes[ftKids[k][i]]
                        b == ftNodes[ftKids[k][j]]
                    IN /\ a.type = "file" => b.type = "file"
                       /\ a.type = b.type => NameRank(a.name) < NameRank(b.name)

\* a returned tree with a children list of two folders and a file that were
\* created in another order than the one returned
C4_Witness ==
    /\ ftSorted
    /\ \E k \in DOMAIN ftKids :
         /\ Len(ftKids[k]) = 3
         /\ ftNodes[ftKids[k][1]].type = "folder"
         /\ ftNodes[ftKids[k][2]].type = "folder"
         /\ ftNodes[ftKids[k][3]].type = "file"
         /\ ftKids[k][3] < ftKids[k][2]
         /\ ftKids[k][2] < ftKids[k][1]

\* C5: with hideKeepFiles = true, no file node of the result is named
\* '.keep', and for every object whose key is P + '/.keep' the result holds a
\* folder node whose path is P.
C5_KeepFolders ==
    (ftSorted /\ ftHide) =>
        /\ \A n \in 1..Len(ftNodes) :
             ftNodes[n].type = "file" => ftNodes[n].name # ".keep"
        /\ \A o \in 1..Len(ftObjects) :
             EndsWithSlashKeep(ftObjects[o].key) =>
                \E n \in 1..Len(ftNodes) :
                    /\ ftNodes[n].type = "folder"
                    /\ ftNodes[n].path = SubSeq(ftObjects[o].key, 1, Len(ftObjects[o].key) - 1)

\* the object of id takes a step for a request addressed to name
C9_StepFor(name) ==
    \E id \in ObjectIds :
        /\ ctReq'[id] # ctReq[id]
        /\ \/ ctReq[id] # Idle /\ ctReq[id].name = name
           \/ ctReq'[id] # Idle /\ ctReq'[id].name = name

\* C9: for two different counter names A and B, no step of a request
\* addressed to A changes the value stored for B or the value last returned
\* for B.
C9_CountersIndependent ==
    [][ \A a, b \in CounterNames :
          (a # b /\ C9_StepFor(a)) =>
              /\ ctStorage'[idFromName(b)] = ctStorage[idFromName(b)]
              /\ ctResp'[b] = ctResp[b] ]_vars

\* both counters hold a value of their own, and A was changed last while the
\* value of B stayed
C9_Witness ==
    /\ ctStorage[idFromName("A")] = Number(MaxCount)
    /\ ctStorage[idFromName("B")] = Number(-1)
    /\ ctResp["A"] # NoResponse /\ ctResp["A"].value = MaxCount
    /\ ctResp["B"] # NoResponse /\ ctResp["B"].value = -1

\* the value a request of the pathname answers when the counter held v
C10_Expected(pathname, v) ==
    CASE pathname = "/increment" -> v + 1
      [] pathname = "/decrement" -> v - 1
      [] pathname = "/reset" -> 0
      [] OTHER -> v

\* C10: a request works on the value in the storage of its object (0 when
\* none is stored), a mutating request has stored the value it answers, and
\* between requests the storage holds the value last answered, so that the
\* next response builds on it whether or not the instance was discarded.
C10_CounterPersists ==
    /\ [](\A id \in ObjectIds :
            ctReq[id].pc = "switch" =>
                ctValue[id] = Coalesce(ctStorage[id], Number(0)).value)
    /\ [](\A name \in CounterNames :
            (ctReq[idFromName(name)] = Idle /\ ctResp[name] # NoResponse) =>
                /\ Coalesce(ctStorage[idFromName(name)], Number(0)).value = ctResp[name].value
                /\ ctResp[name].pathname # "/" =>
                       ctStorage[idFromName(name)] = Number(ctResp[name].value))
    /\ [][ \A name \in CounterNames :
             (ctResp'[name] # ctResp[name] /\ ctResp[name] # NoResponse) =>
                 ctResp'[name].value = C10_Expected(ctResp'[name].pathname, ctResp[name].value) ]_vars

\* a read answered by a new instance of the object returns the value that
\* two increments had left
C10_Witness ==
    /\ ctResp["A"] # NoResponse
    /\ ctResp["A"].pathname = "/"
    /\ ctResp["A"].fresh
    /\ ctResp["A"].value = 2
    /\ ctReq[idFromName("A")] = Idle

\* the text the claim puts in the place of a placeholder
C13_Inserted(value) ==
    IF value.tag = "number" THEN NumberToString(value.value)
    ELSE IF isIntervalValue(value.value) THEN value.value
    ELSE <<"'">> \o DoubleQuotes(value.value) \o <<"'">>

\* query with every placeholder of a key of the entries replaced, from
\* position i on
RECURSIVE C13_ReplacedFrom(_, _, _)
C13_ReplacedFrom(query, entries, i) ==
    IF i > Len(query) THEN <<>>
    ELSE LET hits == {e \in 1..Len(entries) :
                        /\ i + 2 <= Len(query)
                        /\ SubSeq(query, i, i + 2) = <<"{{", entries[e].key, "}}">>}
         IN IF hits = {} THEN <<query[i]>> \o C13_ReplacedFrom(query, entries, i + 1)
            ELSE C13_Inserted(entries[CHOOSE e \in hits : TRUE].value)
                 \o C13_ReplacedFrom(query, entries, i + 3)

\* C13: substituteParams returns query unchanged when params is absent;
\* otherwise every placeholder {{k}} of query with k a key of params is
\* replaced by the number's decimal text, the interval string verbatim or the
\* quoted string with its single quotes doubled, and the rest of query stays.
C13_SubstituteParams ==
    spResult # Undefined =>
        spResult.value = IF IsNullish(spParams) THEN spQuery
                         ELSE C13_ReplacedFrom(spQuery, spParams.items, 1)

\* C11: a request to /api/analytics other than OPTIONS and /health that
\* lacks the X-CF-Account-ID or the X-CF-API-Token header, or carries it empty,
\* is answered 400 'Missing credentials', and nothing is sent to the
\* Cloudflare API for it.
C11_NothingWithoutCredentials ==
    ( /\ wkRequest # Null
      /\ StartsWith(wkRequest.pathname, ANALYTICS)
      /\ wkRequest.method # "OPTIONS"
      /\ Tail(wkRequest.pathname) # <<"/health">>
      /\ \E h \in {wkRequest.accountId, wkRequest.apiToken} : h \in {Null, Str(<<>>)} )
    => /\ wkUpstream = <<>>
       /\ wkAssets = <<>>
       /\ wkPc \in {"start", "done"}
       /\ wkPc = "done" => wkResponses = <<JsonResponse(400, "Missing credentials")>>

\* POST /api/analytics/query with an account id and an empty token has been
\* answered
C11_Witness ==
    /\ wkPc = "done"
    /\ wkRequest.pathname = <<"/api/analytics", "/query">>
    /\ wkRequest.method = "POST"
    /\ wkRequest.accountId = Str(<<"acct">>)
    /\ wkRequest.apiToken = Str(<<>>)
    /\ Len(wkResponses) = 1
    /\ wkResponses[1].status = 400

\* C12 as stated: a request whose path does not start with /api/analytics is
\* passed unchanged to env.ASSETS.fetch and the response of that call is what
\* the worker returns; nothing is sent to the Cloudflare API and the worker
\* produces no JSON response of its own.
C12_AssetsResponseReturned ==
    (wkRequest # Null /\ ~StartsWith(wkRequest.pathname, ANALYTICS)) =>
        /\ wkUpstream = <<>>
        /\ wkPc # "start" => wkAssets = <<wkRequest>>
        /\ wkPc = "done" => wkResponses = <<AssetsResponse>>

\* C12: a request whose path does not start with /api/analytics is passed
\* unchanged to env.ASSETS.fetch; the response of that call is returned when
\* there is one, and when the call fails the worker answers the plain text
\* 'Not Found' with status 404 (its dashboard copy fails with the call);
\* nothing is sent to the Cloudflare API and the worker produces no JSON
\* response of its own.
C12_StaticAssets ==
    (wkRequest # Null /\ ~StartsWith(wkRequest.pathname, ANALYTICS)) =>
        /\ wkUpstream = <<>>
        /\ wkPc # "start" => wkAssets = <<wkRequest>>
        /\ \A i \in 1..Len(wkResponses) :
             wkResponses[i].tag = "response" => ~wkResponses[i].json
        /\ wkPc = "done" =>
             \/ wkResponses = <<AssetsResponse>>
             \/ wkVariant = "worker" /\ wkResponses = <<PlainResponse(404, "Not Found")>>
             \/ wkVariant = "dashboard" /\ wkResponses = <<Rejected>>

\* a path that holds /api/analytics but does not start with it went to the
\* static assets, whose call failed, and the worker answered 404
C12_Witness ==
    /\ wkPc = "done"
    /\ wkVariant = "worker"
    /\ wkRequest.pathname = <<"/x", "/api/analytics">>
    /\ wkAssets = <<wkRequest>>
    /\ wkResponses = <<PlainResponse(404, "Not Found")>>

\* the request carries both credentials and goes to /api/analytics
C17_WithCredentials ==
    /\ wkRequest # Null
    /\ StartsWith(wkRequest.pathname, ANALYTICS)
    /\ wkRequest.accountId = Str(<<"acct">>)
    /\ wkRequest.apiToken = Str(<<"tok">>)

\* /datasets and /datasets/<id>/schema with any method, and POST /query
C17_SendsSql ==
    LET sub == Tail(wkRequest.pathname)
    IN \/ sub = <<"/datasets">>
       \/ /\ Len(sub) >= 4
          /\ SubSeq(sub, 1, 2) = <<"/datasets", "/">>
          /\ sub[Len(sub)] = "/schema"
       \/ sub = <<"/query">> /\ wkRequest.method = "POST"

\* one response and at most one upstream request; a route that sends SQL is
\* answered by the upstream answer (502 when it is not ok) or 500 after an
\* exception; every other route is answered 404 with nothing sent
C17_Routing ==
    /\ Len(wkUpstream) <= 1
    /\ wkAssets = <<>>
    /\ IF wkPc = "done" THEN Len(wkResponses) = 1 ELSE wkResponses = <<>>
    /\ wkPc = "done" =>
         IF C17_SendsSql
         THEN IF wkUpstream = <<>>
              THEN wkResponses[1] = JsonResponse(500, "Request failed")
              ELSE wkResponses[1] =
                     CASE wkUpstream[1].answer = "notok" -> JsonResponse(502, "Query failed")
                       [] wkUpstream[1].answer = "ok" -> JsonResponse(200, "")
                       [] OTHER -> JsonResponse(500, "Request failed")
         ELSE wkUpstream = <<>> /\ wkResponses[1] = JsonResponse(404, "Not found")

\* C17 as stated: every /api/analytics request that carries both credentials
\* gets one response and sends at most one upstream request; /datasets,
\* /datasets/<id>/schema and POST /query send SQL, every other sub-path or
\* method is answered 404 'Not found'; an upstream answer that is not ok
\* gives 502, an exception 500.
C17_EveryRequestRouted == C17_WithCredentials => C17_Routing

\* C17: the same for the requests that are neither OPTIONS nor for /health;
\* OPTIONS is answered 204 and /health 200, both with nothing sent upstream.
C17_ProxyRouting ==
    C17_WithCredentials =>
        IF wkRequest.method = "OPTIONS"
        THEN /\ wkUpstream = <<>>
             /\ wkPc = "done" => wkResponses = <<PlainResponse(204, "")>>
        ELSE IF Tail(wkRequest.pathname) = <<"/health">>
        THEN /\ wkUpstream = <<>>
             /\ wkPc = "done" => wkResponses = <<JsonResponse(200, "")>>
        ELSE C17_Routing

\* POST /query with both credentials was sent upstream, the upstream answer
\* was not ok, and the worker answered 502
C17_Witness ==
    /\ C17_WithCredentials
    /\ wkPc = "done"
    /\ wkRequest.pathname = <<"/api/analytics", "/query">>
    /\ wkRequest.method = "POST"
    /\ Len(wkUpstream) = 1
    /\ wkUpstream[1].answer = "notok"
    /\ wkUpstream[1].sql = <<"'", "x", "'">>
    /\ wkResponses = <<JsonResponse(502, "Query failed")>>

\* the value of the type rules and name rules of the claim, in their order
C14_Dispatch(column) ==
    LET type == ToUpperCase(column.type)
        name == NameToLowerCase(column.name)
    IN CASE Includes(type, T_DATETIME) \/ Includes(type, T_TIMESTAMP) -> Faker("iso datetime")
         [] OTHER ->
       CASE type = T_DATE -> Faker("date")
         [] OTHER ->
       CASE type = T_TIME -> Faker("time")
         [] OTHER ->
       CASE Includes(type, T_INT) -> Faker("int 1..1000")
         [] OTHER ->
       CASE Includes(type, T_REAL) \/ Includes(type, T_FLOAT) \/ Includes(type, T_DOUBLE)
              -> Faker("float 0..100")
         [] OTHER ->
       CASE Includes(type, T_BOOL) -> Faker("boolean 0/1")
         [] OTHER ->
       CASE Includes(type, T_NUMERIC) \/ Includes(type, T_DECIMAL) -> Faker("float 0..1000")
         [] OTHER ->
       CASE Includes(type, T_BLOB) -> Null
         [] OTHER ->
       CASE MatchesTimeOnly(name) -> Faker("time")
         [] OTHER ->
       CASE MatchesDateOnly(name) -> Faker("date")
         [] OTHER ->
       CASE MatchesDateTime(name) -> Faker("iso datetime")
         [] OTHER -> Faker("words")

\* C14 as stated: for every column generateValueForColumn gives the value of
\* the first type rule that matches the upper-cased declared type, and only
\* when none matches the value of the name rules or random words.
C14_DispatchForEveryColumn ==
    RowReturned =>
        /\ ddSchema[1].name \in DOMAIN ddRow
        /\ ddRow[ddSchema[1].name] = C14_Dispatch(ddSchema[1])

\* C14: the same for every column that is not an INTEGER primary key (pk = 1),
\* for which generateValueForColumn gives undefined.
C14_TypeDispatch ==
    RowReturned =>
        IF ddSchema[1].pk = 1 /\ ToUpperCase(ddSchema[1].type) = T_INTEGER
        THEN ddSchema[1].name \notin DOMAIN ddRow
        ELSE /\ ddSchema[1].name \in DOMAIN ddRow
             /\ ddRow[ddSchema[1].name] = C14_Dispatch(ddSchema[1])

\* a TEXT column named startdate, which the date-only and the datetime
\* patterns both match, got a date
C14_Witness ==
    /\ RowReturned
    /\ ddFk = Undefined
    /\ ddSchema = <<[name |-> <<"start", "date">>, type |-> <<"T", "E", "X", "T">>, pk |-> 0]>>
    /\ ddRow[<<"start", "date">>] = Faker("date")

\* both accountId and apiToken are stored: the item can be read and parsed
\* and holds a value for each of the two
C15_CredentialsStored ==
    /\ acStored.get = "text"
    /\ acStored.parsed.ok
    /\ acStored.parsed.value.tag = "object"
    /\ \A f \in {"accountId", "apiToken"} :
         /\ f \in DOMAIN acStored.parsed.value.fields
         /\ acStored.parsed.value.fields[f] \notin {Null, Str(<<>>)}

\* C15: without stored credentials getDatasets, getDatasetSchema and
\* executeQuery fail with 'No API credentials found...' and send no HTTP
\* request; healthCheck never fails and returns 'ok' exactly when both
\* accountId and apiToken are stored, 'no_credentials' otherwise.
C15_CredentialsRequired ==
    /\ (acStored # Null /\ ~C15_CredentialsStored) => (acHttp = <<>> /\ acCall = Idle)
    /\ acResult # Undefined =>
         IF acResult.op = "healthCheck"
         THEN acResult = ApiReturned("healthCheck",
                                     IF C15_CredentialsStored THEN "ok" ELSE "no_credentials")
         ELSE ~C15_CredentialsStored =>
                  acResult = ApiThrew(acResult.op, NoCredentialsMessage)

\* getDatasets has failed for credentials that hold an account id and an
\* empty token
C15_Witness ==
    /\ acResult = ApiThrew("getDatasets", NoCredentialsMessage)
    /\ acHttp = <<>>
    /\ acStored.get = "text"
    /\ acStored.parsed.ok
    /\ acStored.parsed.value = Obj([f \in {"accountId", "apiToken"} |->
                                      IF f = "accountId" THEN Str(<<"v">>) ELSE Str(<<>>)])

\* C16: the value returned by the last request for a counter is the number
\* of increments minus the number of decrements answered since the last
\* reset (or since creation with 0); a read returns the stored value (0 when
\* none is stored) and no step of it changes the storage.
C16_CounterArithmetic ==
    /\ [](\A name \in CounterNames :
            ctResp[name] # NoResponse =>
                /\ ctResp[name].value = ctNet[name]
                /\ (ctResp[name].pathname = "/" /\ ctReq[idFromName(name)] = Idle) =>
                       ctResp[name].value = Coalesce(ctStorage[idFromName(name)], Number(0)).value)
    /\ [][ \A id \in ObjectIds :
             (ctReq[id] # Idle /\ ctReq[id].pathname = "/" /\ ctReq'[id] # ctReq[id]) =>
                 ctStorage'[id] = ctStorage[id] ]_vars

\* a read of counter A has returned a negative value while counter B was
\* reset
C16_Witness ==
    /\ ctResp["A"] # NoResponse
    /\ ctResp["A"].pathname = "/"
    /\ ctResp["A"].value = -2
    /\ ctNet["A"] = -2
    /\ ctResp["B"] # NoResponse
    /\ ctResp["B"].pathname = "/reset"
    /\ ctStorage[idFromName("B")] = Number(0)

\* the node whose children list holds node n (0: the root)
C18_Parent(n) == CHOOSE k \in DOMAIN ftKids : n \in Range(ftKids[k])

\* node n is nested under folder nodes for exactly the segments before the
\* last one of its path
RECURSIVE C18_Nested(_)
C18_Nested(n) ==
    LET p == C18_Parent(n)
    IN IF Len(ftNodes[n].path) = 1 THEN p = 0
       ELSE /\ p # 0
            /\ ftNodes[p].type = "folder"
            /\ ftNodes[p].path = SubSeq(ftNodes[n].path, 1, Len(ftNodes[n].path) - 1)
            /\ C18_Nested(p)

\* C18: the file nodes of buildFileTree(objects, true) correspond one-to-one
\* to the objects whose key is not '.keep' and does not end in '/.keep': each
\* such object has exactly one file node, with the key as path and the size
\* of the object, nested under folders for the preceding segments; no two
\* siblings share a name; a folder has children and no size, a file no
\* children.
C18_FileNodesMatchObjects ==
    (ftSorted /\ ftHide) =>
        LET files == {n \in 1..Len(ftNodes) : ftNodes[n].type = "file"}
            shown == {o \in 1..Len(ftObjects) : IsShown(ftObjects[o].key)}
        IN /\ \A o \in shown :
                \E n \in files :
                    /\ ftNodes[n].path = ftObjects[o].key
                    /\ ftNodes[n].size = <<ftObjects[o].size>>
                    /\ C18_Nested(n)
                    /\ \A m \in files : ftNodes[m].path = ftObjects[o].key => m = n
           /\ \A n \in files : \E o \in shown : ftNodes[n].path = ftObjects[o].key
           /\ \A k \in DOMAIN ftKids :
                \A i, j \in 1..Len(ftKids[k]) :
                    i # j => ftNodes[ftKids[k][i]].name # ftNodes[ftKids[k][j]].name
           /\ \A n \in 1..Len(ftNodes) :
                IF ftNodes[n].type = "folder"
                THEN ftNodes[n].hasChildren /\ ftNodes[n].size = <<>>
                ELSE ~ftNodes[n].hasChildren /\ ftKids[n] = <<>>

\* the requests of the given path among those sent to the object
C19_Sent(pathname) == {i \in 1..Len(ctFlight) : ctFlight[i].pathname = pathname}

====
